---- MODULE Spec2Model ----
(***************************************************************************)
(* Model of the legal-document-management app:                             *)
(*   - the extraction pipeline  (src/lib/api-error.ts)                     *)
(*   - the persistent store and its route handlers                         *)
(*     (src/app/api/documents/route.ts, src/unnamed/part_014,              *)
(*      src/prisma/schema.prisma, src/unnamed/part_008)                    *)
(*   - the useDocuments hook    (src/hooks/use-documents.ts)               *)
(***************************************************************************)
EXTENDS Integers, Sequences, FiniteSets, TLC

\* ------------------------------------------------------------------------
\* Bounds of the model
\* ------------------------------------------------------------------------
MaxPages == 4
\* Math.random() is modelled as num / RandDen with num in 0 .. RandDen-1
RandDen == 16
\* cap on the backfill loop counter i (the loop itself has no cap)
MaxIter == 7
\* slots modelled (the dashboard has 9)
NSlots == 2
\* route handler invocations
NReq == 2
\* calls of the hook's operations
NOps == 2
\* dot-separated segments of a file name
MaxSegments == 2
\* pending reset timers of the upload modal that are told apart
MaxTimers == 1

\* ------------------------------------------------------------------------
\* Program constants
\* ------------------------------------------------------------------------
MinParagraphLen == 20
maxLength == 150
EllipsisLen == 3
PerPageCap == 2
MinExtractions == 3
BackfillTarget == 5
BackfillWords == 15
MockBase == 3
MockSpan == 5
\* const MAX_FILE_SIZE = 10 * 1024 * 1024
MAX_FILE_SIZE == 10485760

Min(a, b) == IF a < b THEN a ELSE b
Max(a, b) == IF a > b THEN a ELSE b

\* Math.floor(Math.random() * n) for every modelled value of Math.random()
RandFull == 0 .. (RandDen - 1)
RandExt == {0, RandDen - 1}
FloorRand(num, n) == (num * n) \div RandDen

\* ------------------------------------------------------------------------
\* Page text source: what pdf.getPage(n) / getTextContent() yield
\* ------------------------------------------------------------------------
Para(len, hit) == [len |-> len, hit |-> hit]
PageThrows == [throws |-> TRUE, paras |-> <<>>, words |-> 0, wlen |-> 0]
PageEmpty == [throws |-> FALSE, paras |-> <<>>, words |-> 0, wlen |-> 0]
PageMiss == [throws |-> FALSE, paras |-> <<Para(29, FALSE)>>, words |-> 5, wlen |-> 5]
PageHit1 == [throws |-> FALSE, paras |-> <<Para(10, TRUE), Para(200, TRUE)>>,
             words |-> 40, wlen |-> 4]
PageHit3 == [throws |-> FALSE,
             paras |-> <<Para(30, TRUE), Para(19, TRUE), Para(20, TRUE), Para(150, TRUE)>>,
             words |-> 45, wlen |-> 12]
PageKinds == {PageThrows, PageEmpty, PageMiss, PageHit1, PageHit3}

\* identifiers: slot ids "doc-n" and durable ids (uuidv4)
SlotRef(n) == [kind |-> "slot", n |-> n]
Uuid(n) == [kind |-> "uuid", n |-> n]
NoId == [kind |-> "none", n |-> 0]
\* an id made of white space only
BlankId == [kind |-> "blank", n |-> 0]

DocIds == {Uuid(1), Uuid(2)}

VARIABLES
  fn,             \* which function is being run: "pdf" or "mock"
  documentId,     \* argument documentId
  pageCount,      \* argument pageCount
  pdfOpens,       \* whether setupPdfWorker / getDocument succeed
  pages,          \* page number -> page content
  xpc,            \* position inside the function
  pageNum,        \* scan loop variable
  extractions,    \* the local array extractions
  processedPages, \* Set processedPages
  usedPages,      \* Set usedPages
  iter,           \* backfill loop variable i
  mockCount,      \* extractionCount of generateMockExtractions
  result,         \* returned list
  dbDocs,         \* committed rows of table Document
  dbExts,         \* committed rows of table Extraction
  s3,             \* keys of the objects in the bucket
  req,            \* route handler invocations in flight
  documents,      \* useDocuments: state documents (slot -> Document | null)
  isLoaded,       \* useDocuments: state isLoaded
  documentUrls,   \* useDocuments: state documentUrls (cache key -> URL)
  modal,          \* UploadModal and the dashboard's upload state
  preview,        \* DocumentPreviewModal: numPages, pageNumber
  op              \* useDocuments: calls of uploadDocument / deleteDocument

xvars == <<fn, documentId, pageCount, pdfOpens, pages, xpc, pageNum, extractions,
           processedPages, usedPages, iter, mockCount, result>>

svars == <<dbDocs, dbExts, s3, req>>

uvars == <<documentUrls, modal, preview>>

hvars == <<documents, isLoaded, op, uvars>>

vars == <<xvars, svars, hvars>>

\* ------------------------------------------------------------------------
\* generateExtractionsFromPdf : heuristic scan of one page
\* ------------------------------------------------------------------------
CountOnPage(exts, p) == Cardinality({k \in 1 .. Len(exts) : exts[k].pageNumber = p})

\* paragraph.length > maxLength ? substring(0, maxLength) + "..." : paragraph
TruncatedLen(len) == IF len > maxLength THEN maxLength + EllipsisLen ELSE len

ScanExtraction(docId, n, p, k, para) ==
  [id |-> n, documentId |-> docId, pageNumber |-> p,
   text |-> [src |-> "scan", idx |-> k, len |-> TruncatedLen(para.len)]]

\* the scan without the per-page break
RECURSIVE ScanParagraphsNoCap(_, _, _, _, _)
ScanParagraphsNoCap(docId, paras, k, p, exts) ==
  IF k > Len(paras) THEN exts
  ELSE IF paras[k].len < MinParagraphLen \/ ~paras[k].hit
  THEN ScanParagraphsNoCap(docId, paras, k + 1, p, exts)
  ELSE ScanParagraphsNoCap(docId, paras, k + 1, p,
                           Append(exts, ScanExtraction(docId, Len(exts), p, k, paras[k])))

RECURSIVE ScanParagraphs(_, _, _, _, _)
ScanParagraphs(docId, paras, k, p, exts) ==
  IF k > Len(paras) THEN exts
  ELSE IF paras[k].len < MinParagraphLen THEN ScanParagraphs(docId, paras, k + 1, p, exts)
  ELSE IF ~paras[k].hit THEN ScanParagraphs(docId, paras, k + 1, p, exts)
  ELSE LET pushed == Append(exts, ScanExtraction(docId, Len(exts), p, k, paras[k]))
       IN IF CountOnPage(pushed, p) >= PerPageCap
          THEN pushed
          ELSE ScanParagraphs(docId, paras, k + 1, p, pushed)

\* extractionCount = Math.min(5, pageCount)
ExtractionCount(n) == Min(BackfillTarget, n)

\* the page chosen by one backfill iteration
BackfillPages(used, n) ==
  IF Cardinality(used) < n
  THEN {FloorRand(r, n) + 1 : r \in RandFull} \ used
  ELSE {FloorRand(r, n) + 1 : r \in RandFull}

BackfillExtraction(docId, n, p, page, r) ==
  LET startIndex == FloorRand(r, Max(1, page.words - BackfillWords))
      length == Min(BackfillWords, page.words - startIndex)
  IN [id |-> n, documentId |-> docId, pageNumber |-> p,
      text |-> [src |-> "backfill", idx |-> startIndex,
                len |-> length * page.wlen + (length - 1)]]

\* ------------------------------------------------------------------------
\* generateMockExtractions
\* ------------------------------------------------------------------------
\* an extraction count of 3 to 8
MockExtractionCountWide(r) == FloorRand(r, MockSpan + 1) + MockBase

MockExtractionCount(r) == FloorRand(r, MockSpan) + MockBase

\* lengths of the 15 strings of extractionTexts
CatalogLen == <<41, 33, 32, 26, 31, 36, 27, 25, 28, 31, 39, 34, 43, 43, 26>>

MockExtraction(docId, i, n, rp, rt) ==
  LET randomPage == FloorRand(rp, n) + 1
      randomTextIndex == FloorRand(rt, Len(CatalogLen))
  IN [id |-> i, documentId |-> docId, pageNumber |-> randomPage,
      text |-> [src |-> "mock", idx |-> randomTextIndex,
                len |-> CatalogLen[randomTextIndex + 1]]]

\* ------------------------------------------------------------------------
\* Init
\* ------------------------------------------------------------------------
XInit ==
  /\ fn \in {"pdf", "mock"}
  /\ documentId \in DocIds
  /\ pageCount \in 1 .. MaxPages
  /\ IF fn = "pdf"
     THEN /\ pdfOpens \in BOOLEAN
          /\ pages \in [1 .. pageCount -> PageKinds]
     ELSE /\ pdfOpens = TRUE
          /\ pages = [p \in 1 .. pageCount |-> PageEmpty]
  /\ xpc = IF fn = "pdf" THEN "open" ELSE "mock"
  /\ pageNum = 1
  /\ extractions = <<>>
  /\ processedPages = {}
  /\ usedPages = {}
  /\ iter = 0
  /\ mockCount = 0
  /\ result = <<>>

\* ------------------------------------------------------------------------
\* Actions of generateExtractionsFromPdf
\* ------------------------------------------------------------------------
OpenPdf ==
  /\ xpc = "open"
  /\ xpc' = IF pdfOpens THEN "scan" ELSE "thrown"
  /\ UNCHANGED <<svars, hvars>>
  /\ UNCHANGED <<fn, documentId, pageCount, pdfOpens, pages, pageNum, extractions,
                 processedPages, usedPages, iter, mockCount, result>>

\* a scan in which a page that cannot be read ends the call
ScanPageFatal ==
  /\ xpc = "scan"
  /\ pageNum <= pageCount
  /\ LET page == pages[pageNum]
         scanned == IF page.throws THEN extractions
                    ELSE ScanParagraphs(documentId, page.paras, 1, pageNum, extractions)
     IN /\ extractions' = scanned
        /\ processedPages' = IF Len(scanned) > Len(extractions)
                             THEN processedPages \cup {pageNum}
                             ELSE processedPages
        /\ xpc' = IF page.throws THEN "thrown" ELSE xpc
  /\ pageNum' = pageNum + 1
  /\ UNCHANGED <<svars, hvars>>
  /\ UNCHANGED <<fn, documentId, pageCount, pdfOpens, pages, usedPages, iter,
                 mockCount, result>>

ScanPage ==
  /\ xpc = "scan"
  /\ pageNum <= pageCount
  /\ LET page == pages[pageNum]
         scanned == IF page.throws THEN extractions
                    ELSE ScanParagraphs(documentId, page.paras, 1, pageNum, extractions)
     IN /\ extractions' = scanned
        /\ processedPages' = IF Len(scanned) > Len(extractions)
                             THEN processedPages \cup {pageNum}
                             ELSE processedPages
  /\ pageNum' = pageNum + 1
  /\ UNCHANGED <<svars, hvars>>
  /\ UNCHANGED <<fn, documentId, pageCount, pdfOpens, pages, xpc, usedPages, iter,
                 mockCount, result>>

ScanDone ==
  /\ xpc = "scan"
  /\ pageNum > pageCount
  /\ IF Len(extractions) < MinExtractions
     THEN /\ xpc' = "backfill"
          /\ usedPages' = processedPages
          /\ iter' = 0
     ELSE /\ xpc' = "final"
          /\ UNCHANGED <<usedPages, iter>>
  /\ UNCHANGED <<svars, hvars>>
  /\ UNCHANGED <<fn, documentId, pageCount, pdfOpens, pages, pageNum, extractions,
                 processedPages, mockCount, result>>

BackfillIter ==
  /\ xpc = "backfill"
  /\ Len(extractions) < ExtractionCount(pageCount)
  /\ iter < MaxIter
  /\ \E randomPage \in BackfillPages(usedPages, pageCount) :
       /\ usedPages' = IF Cardinality(usedPages) < pageCount
                       THEN usedPages \cup {randomPage}
                       ELSE usedPages
       /\ LET page == pages[randomPage]
          IN IF page.throws \/ page.paras = <<>>
             THEN extractions' = extractions
             ELSE \E r \in RandExt :
                    extractions' = Append(extractions,
                         BackfillExtraction(documentId, Len(extractions), randomPage, page, r))
  /\ iter' = iter + 1
  /\ UNCHANGED <<svars, hvars>>
  /\ UNCHANGED <<fn, documentId, pageCount, pdfOpens, pages, xpc, pageNum,
                 processedPages, mockCount, result>>

BackfillDone ==
  /\ xpc = "backfill"
  /\ Len(extractions) >= ExtractionCount(pageCount)
  /\ xpc' = "final"
  /\ UNCHANGED <<svars, hvars>>
  /\ UNCHANGED <<fn, documentId, pageCount, pdfOpens, pages, pageNum, extractions,
                 processedPages, usedPages, iter, mockCount, result>>

FinalCheck ==
  /\ xpc = "final"
  /\ IF Len(extractions) = 0
     THEN /\ xpc' = "mock"
          /\ UNCHANGED result
     ELSE /\ xpc' = "returned"
          /\ result' = extractions
  /\ UNCHANGED <<svars, hvars>>
  /\ UNCHANGED <<fn, documentId, pageCount, pdfOpens, pages, pageNum, extractions,
                 processedPages, usedPages, iter, mockCount>>

\* ------------------------------------------------------------------------
\* Actions of generateMockExtractions
\* ------------------------------------------------------------------------
MockStart ==
  /\ xpc = "mock"
  /\ \E r \in RandFull : mockCount' = MockExtractionCount(r)
  /\ result' = <<>>
  /\ xpc' = "mockloop"
  /\ UNCHANGED <<svars, hvars>>
  /\ UNCHANGED <<fn, documentId, pageCount, pdfOpens, pages, pageNum, extractions,
                 processedPages, usedPages, iter>>

MockPush ==
  /\ xpc = "mockloop"
  /\ Len(result) < mockCount
  /\ \E rp \in RandExt, rt \in RandExt :
       result' = Append(result, MockExtraction(documentId, Len(result), pageCount, rp, rt))
  /\ UNCHANGED <<svars, hvars>>
  /\ UNCHANGED <<fn, documentId, pageCount, pdfOpens, pages, xpc, pageNum, extractions,
                 processedPages, usedPages, iter, mockCount>>

MockReturn ==
  /\ xpc = "mockloop"
  /\ Len(result) >= mockCount
  /\ xpc' = "returned"
  /\ UNCHANGED <<svars, hvars>>
  /\ UNCHANGED <<fn, documentId, pageCount, pdfOpens, pages, pageNum, extractions,
                 processedPages, usedPages, iter, mockCount, result>>

XNext ==
  \/ OpenPdf
  \/ ScanPage
  \/ ScanDone
  \/ BackfillIter
  \/ BackfillDone
  \/ FinalCheck
  \/ MockStart
  \/ MockPush
  \/ MockReturn


\* ------------------------------------------------------------------------
\* Persistent store (prisma/schema.prisma) and byte store
\* ------------------------------------------------------------------------
Slots == {SlotRef(n) : n \in 1 .. NSlots}

\* model Document; uploadDate holds the number of the request whose write
\* evaluated new Date()
DocRow(id, slot, key, name, size, mime, date) ==
  [id |-> id, slotId |-> slot, fileKey |-> key, name |-> name, fileSize |-> size,
   mimeType |-> mime, uploadDate |-> date]

\* rows created by createMany: id: uuidv4(), text, pageNumber, documentId
NewExtractionRows(r, id, list) ==
  {[id |-> [req |-> r, k |-> k], documentId |-> id, text |-> list[k].text,
    pageNumber |-> list[k].pageNumber] : k \in 1 .. Len(list)}

\* a slotId column without the unique index
SlotIdUnchecked(docs, slot) == TRUE

\* Document.slotId @unique
SlotIdUnique(docs, slot) == \A d \in docs : d.slotId # slot

\* Extraction.document @relation(fields: [documentId], references: [id])
ForeignKeyOk(docs, id) == \E d \in docs : d.id = id

\* a relation without onDelete: Cascade
NoCascadeRows(exts, id) == {}

\* ... onDelete: Cascade
CascadeRows(exts, id) == {e \in exts : e.documentId = id}

\* where: { documentId }
RowsOfDocument(exts, id) == {e \in exts : e.documentId = id}

\* findUnique({ where: { id } }) / findUnique({ where: { slotId } })
DocsById(docs, id) == {d \in docs : d.id = id}
DocsBySlot(docs, slot) == {d \in docs : d.slotId = slot}

\* a store left by earlier sessions: empty, or one document with its batch
TextA == [src |-> "scan", idx |-> 1, len |-> 30]
TextB == [src |-> "backfill", idx |-> 0, len |-> 29]
EntryA == [text |-> TextA, pageNumber |-> 1]
EntryB == [text |-> TextB, pageNumber |-> 2]
OldDoc == DocRow(Uuid(0), SlotRef(1), 0, 0, 1024, "application/pdf", 0)
OldExts == NewExtractionRows(0, Uuid(0), <<EntryA, EntryB>>)

\* request bodies of POST /api/documents/{id}/extractions
Lists == {<<>>, <<EntryA>>, <<EntryB, EntryA>>, <<EntryA, EntryA>>}

\* Document | null as held by the hook
NullDoc == [id |-> NoId, name |-> 0]
IdleOp ==
  [kind |-> "idle", pc |-> "idle", slotId |-> NoId, actualId |-> NoId, file |-> 0,
   key |-> 0, docId |-> NoId, s3ok |-> TRUE, pipelineThrew |-> FALSE, outcome |-> "none",
   failedAt |-> "none", wasEmpty |-> FALSE]

NoBody == [none |-> TRUE]
IdleReq ==
  [kind |-> "idle", pc |-> "idle", id |-> NoId, slotId |-> NoId, key |-> 0, name |-> 0,
   list |-> <<>>, body |-> NoBody, reply |-> NoBody,
   foundId |-> NoId, foundKey |-> 0, txDelExt |-> {}, txDelDoc |-> {}, txShare |-> {},
   txWant |-> {}, txInsExt |-> {}, s3ok |-> TRUE, status |-> 0, cause |-> "none",
   count |-> 0]

SInit ==
  /\ \/ dbDocs = {} /\ dbExts = {} /\ s3 = {}
     \/ dbDocs = {OldDoc} /\ dbExts = OldExts /\ s3 = {0}
     \/ dbDocs = {OldDoc} /\ dbExts = {} /\ s3 = {0}
  /\ req = [r \in 1 .. NReq |-> IdleReq]

\* row locks held by the other open transactions
ExtRowsLocked(r, rows) == \E o \in DOMAIN req \ {r} : req[o].txDelExt \cap rows # {}
DocDeletedByOther(r, ids) == \E o \in DOMAIN req \ {r} : req[o].txDelDoc \cap ids # {}
DocSharedByOther(r, id) == \E o \in DOMAIN req \ {r} : id \in req[o].txShare

InTx(r) == req[r].pc \in {"del_tx_ext", "del_tx_ext_wait", "del_tx_doc", "del_tx_s3",
                          "del_tx_commit",
                          "ext_tx_del", "ext_tx_del_wait", "ext_tx_ins", "ext_tx_commit"}

\* the response is sent; an open transaction is rolled back
Respond(r, status, cause) ==
  req' = [req EXCEPT ![r] = [@ EXCEPT !.pc = "done", !.status = status, !.cause = cause,
                                      !.txDelExt = {}, !.txDelDoc = {}, !.txShare = {},
                                      !.txWant = {}, !.txInsExt = {}]]

\* JSON values of a request body: a field the body lacks is undefined; a
\* file name is held as the list fileName.split(".") yields
Undefined == [type |-> "undefined"]
Number(n) == [type |-> "number", n |-> n]
String(str) == [type |-> "string", str |-> str]
FileName(segs) == [type |-> "string", segs |-> segs]

\* !value
Falsy(v) ==
  \/ v.type = "undefined"
  \/ v.type = "number" /\ v.n = 0
  \/ v.type = "string" /\ (IF "segs" \in DOMAIN v THEN v.segs = <<"">> ELSE v.str = "")

\* handleApiError(error) for an ApiError or any other error: the response
\* carries the error type and the message; id is the id written into it
RespondError(r, status, cause, type, id) ==
  req' = [req EXCEPT ![r] = [@ EXCEPT !.pc = "done", !.status = status, !.cause = cause,
                                      !.reply = [type |-> type, id |-> id],
                                      !.txDelExt = {}, !.txDelDoc = {}, !.txShare = {},
                                      !.txWant = {}, !.txInsExt = {}]]

\* !documentId || documentId.trim() === ""
InvalidDocumentId(id) == id = NoId \/ id.kind = "blank"

\* createValidationError("Invalid document ID", ...)
RespondInvalidId(r) == RespondError(r, 400, "validation", "VALIDATION_ERROR", NoId)

\* a not-found message that does not name the id
RespondNotFoundNoId(r) == RespondError(r, 404, "notfound", "NOT_FOUND", NoId)

\* createNotFoundError("Document", documentId)
RespondNotFound(r) == RespondError(r, 404, "notfound", "NOT_FOUND", req[r].id)

\* ------------------------------------------------------------------------
\* POST /api/documents
\* ------------------------------------------------------------------------
\* const { name, fileKey, fileSize, mimeType, slotId } = body: a field the body
\* lacks is undefined; 0 and "" are falsy as well
CreateMissingFields(body) ==
  {f \in {"name", "fileKey", "slotId"} : f \notin DOMAIN body}
    \cup (IF "fileSize" \notin DOMAIN body THEN {"fileSize"}
          ELSE IF body.fileSize = 0 THEN {"fileSize"} ELSE {})
    \cup (IF "mimeType" \notin DOMAIN body THEN {"mimeType"}
          ELSE IF body.mimeType = "" THEN {"mimeType"} ELSE {})

\* the validation without the file size check
CreateBodyErrorAnySize(body) ==
  IF CreateMissingFields(body) # {} THEN "Missing required fields"
  ELSE IF body.mimeType # "application/pdf" THEN "Invalid file type"
  ELSE "none"

\* the createValidationError thrown for the body, or "none"
CreateBodyError(body) ==
  IF CreateMissingFields(body) # {} THEN "Missing required fields"
  ELSE IF body.mimeType # "application/pdf" THEN "Invalid file type"
  ELSE IF body.fileSize > MAX_FILE_SIZE THEN "File too large"
  ELSE "none"

\* the handler up to its first query
CreateRequest(body) ==
  IF CreateBodyError(body) # "none"
  THEN [IdleReq EXCEPT !.kind = "create", !.pc = "done", !.body = body, !.status = 400,
                       !.cause = "validation"]
  ELSE [IdleReq EXCEPT !.kind = "create", !.pc = "cr_find", !.body = body,
                       !.slotId = body.slotId, !.key = body.fileKey, !.name = body.name]

\* the body sent for a PDF within the size limit
CreateBody(slot, key, name, size) ==
  [name |-> name, fileKey |-> key, fileSize |-> size, mimeType |-> "application/pdf",
   slotId |-> slot]

CreateFind(r) ==
  /\ req[r].pc = "cr_find"
  /\ LET existing == DocsBySlot(dbDocs, req[r].slotId)
     IN IF existing # {}
        THEN \E d \in existing :
               req' = [req EXCEPT ![r] = [@ EXCEPT !.pc = "cr_update", !.foundId = d.id]]
        ELSE req' = [req EXCEPT ![r] = [@ EXCEPT !.pc = "cr_create"]]
  /\ UNCHANGED <<dbDocs, dbExts, s3>>
  /\ UNCHANGED <<xvars, hvars>>

\* an update that replaces the row by a new one
CreateUpdateAsNew(r) ==
  /\ req[r].pc = "cr_update"
  /\ ~DocDeletedByOther(r, {req[r].foundId})
  /\ LET rows == DocsById(dbDocs, req[r].foundId)
     IN IF rows = {}
        THEN /\ Respond(r, 500, "db")
             /\ UNCHANGED dbDocs
        ELSE /\ dbDocs' = (dbDocs \ rows) \cup
                  {DocRow(Uuid(r), req[r].slotId, req[r].key, req[r].name,
                          req[r].body.fileSize, req[r].body.mimeType, r)}
             /\ req' = [req EXCEPT ![r] = [@ EXCEPT !.pc = "done", !.status = 200,
                                                    !.id = Uuid(r)]]
  /\ UNCHANGED <<dbExts, s3>>
  /\ UNCHANGED <<xvars, hvars>>

CreateUpdate(r) ==
  /\ req[r].pc = "cr_update"
  /\ ~DocDeletedByOther(r, {req[r].foundId})
  /\ LET rows == DocsById(dbDocs, req[r].foundId)
     IN IF rows = {}
        THEN /\ Respond(r, 500, "db")
             /\ UNCHANGED dbDocs
        ELSE /\ dbDocs' = (dbDocs \ rows) \cup
                  {[d EXCEPT !.fileKey = req[r].key, !.name = req[r].name,
                             !.fileSize = req[r].body.fileSize,
                             !.mimeType = req[r].body.mimeType,
                             !.uploadDate = r] : d \in rows}
             /\ req' = [req EXCEPT ![r] = [@ EXCEPT !.pc = "done", !.status = 200,
                                                    !.id = req[r].foundId]]
  /\ UNCHANGED <<dbExts, s3>>
  /\ UNCHANGED <<xvars, hvars>>

CreateInsert(r) ==
  /\ req[r].pc = "cr_create"
  /\ ~DocDeletedByOther(r, {d.id : d \in DocsBySlot(dbDocs, req[r].slotId)})
  /\ IF SlotIdUnique(dbDocs, req[r].slotId)
     THEN /\ dbDocs' = dbDocs \cup {DocRow(Uuid(r), req[r].slotId, req[r].key, req[r].name,
                                            req[r].body.fileSize, req[r].body.mimeType, r)}
          /\ req' = [req EXCEPT ![r] = [@ EXCEPT !.pc = "done", !.status = 200,
                                                 !.id = Uuid(r)]]
     ELSE /\ Respond(r, 500, "db")
          /\ UNCHANGED dbDocs
  /\ UNCHANGED <<dbExts, s3>>
  /\ UNCHANGED <<xvars, hvars>>

\* ------------------------------------------------------------------------
\* DELETE /api/documents/{id}
\* ------------------------------------------------------------------------
DeleteFind(r) ==
  /\ req[r].pc = "del_find"
  /\ LET rows == DocsById(dbDocs, req[r].id)
     IN IF InvalidDocumentId(req[r].id)
        THEN RespondInvalidId(r)
        ELSE IF rows = {}
        THEN RespondNotFound(r)
        ELSE \E d \in rows :
               req' = [req EXCEPT ![r] = [@ EXCEPT !.pc = "del_tx_ext", !.foundId = d.id,
                                                      !.foundKey = d.fileKey]]
  /\ UNCHANGED <<dbDocs, dbExts, s3>>
  /\ UNCHANGED <<xvars, hvars>>

\* tx.extraction.deleteMany: the statement reads the rows committed when it
\* starts, then waits for the row locks of other transactions and deletes the
\* rows of its snapshot that still exist (READ COMMITTED)
DeleteTxExtractions(r) ==
  /\ req[r].pc = "del_tx_ext"
  /\ req' = [req EXCEPT ![r] = [@ EXCEPT !.pc = "del_tx_ext_wait",
                                         !.txWant = RowsOfDocument(dbExts, req[r].id)]]
  /\ UNCHANGED <<dbDocs, dbExts, s3>>
  /\ UNCHANGED <<xvars, hvars>>

DeleteTxExtractionsDone(r) ==
  /\ req[r].pc = "del_tx_ext_wait"
  /\ LET rows == req[r].txWant \cap dbExts
     IN /\ ~ExtRowsLocked(r, rows)
        /\ req' = [req EXCEPT ![r] = [@ EXCEPT !.pc = "del_tx_doc", !.txDelExt = rows,
                                               !.txWant = {}]]
  /\ UNCHANGED <<dbDocs, dbExts, s3>>
  /\ UNCHANGED <<xvars, hvars>>

DeleteTxDocument(r) ==
  /\ req[r].pc = "del_tx_doc"
  /\ ~DocDeletedByOther(r, {req[r].id})
  /\ ~DocSharedByOther(r, req[r].id)
  /\ LET cascade == CascadeRows(dbExts, req[r].id)
     IN /\ ~ExtRowsLocked(r, cascade)
        /\ IF DocsById(dbDocs, req[r].id) = {}
           THEN Respond(r, 500, "db")
           ELSE req' = [req EXCEPT ![r] = [@ EXCEPT !.pc = "del_tx_s3",
                                                     !.txDelDoc = {req[r].id},
                                                     !.txDelExt = @ \cup cascade]]
  /\ UNCHANGED <<dbDocs, dbExts, s3>>
  /\ UNCHANGED <<xvars, hvars>>

\* deleteObject called after the transaction: the rows are deleted first
DeleteTxObjectDbFirst(r) ==
  /\ req[r].pc = "del_tx_s3"
  /\ dbDocs' = {d \in dbDocs : d.id \notin req[r].txDelDoc}
  /\ dbExts' = dbExts \ req[r].txDelExt
  /\ \/ /\ req[r].s3ok
        /\ s3' = s3 \ {req[r].foundKey}
        /\ Respond(r, 200, "none")
     \/ /\ ~req[r].s3ok
        /\ s3' = s3
        /\ Respond(r, 500, "s3")
  /\ UNCHANGED <<xvars, hvars>>

\* deleteObject(document.fileKey), awaited inside the transaction callback
DeleteTxObject(r) ==
  /\ req[r].pc = "del_tx_s3"
  /\ \/ /\ req[r].s3ok
        /\ s3' = s3 \ {req[r].foundKey}
        /\ req' = [req EXCEPT ![r] = [@ EXCEPT !.pc = "del_tx_commit"]]
     \/ /\ ~req[r].s3ok
        /\ s3' = s3
        /\ Respond(r, 500, "s3")
  /\ UNCHANGED <<dbDocs, dbExts>>
  /\ UNCHANGED <<xvars, hvars>>

DeleteTxCommit(r) ==
  /\ req[r].pc = "del_tx_commit"
  /\ dbDocs' = {d \in dbDocs : d.id \notin req[r].txDelDoc}
  /\ dbExts' = dbExts \ req[r].txDelExt
  /\ Respond(r, 200, "none")
  /\ UNCHANGED s3
  /\ UNCHANGED <<xvars, hvars>>

\* ------------------------------------------------------------------------
\* POST /api/documents/{id}/extractions
\* ------------------------------------------------------------------------
\* an element null of the array, and elements with ill-typed properties; a
\* property the element lacks is undefined
NullEntry == [null |-> TRUE]
TypeofText(e) == IF "textType" \in DOMAIN e THEN e.textType ELSE "string"
TypeofPageNumber(e) == IF "pageNumberType" \in DOMAIN e THEN e.pageNumberType ELSE "number"

\* validateExtraction(extraction, index): the errors it returns
ValidateExtraction(e) ==
  (IF "text" \notin DOMAIN e THEN {"text"}
   ELSE IF TypeofText(e) # "string" \/ e.text.len = 0 THEN {"text"} ELSE {})
  \cup
  (IF "pageNumber" \notin DOMAIN e THEN {"pageNumber"}
   ELSE IF TypeofPageNumber(e) # "number" THEN {"pageNumber"}
   ELSE IF e.pageNumber < 1 THEN {"pageNumber"} ELSE {})

\* the error thrown before the document is looked up, or "none"; body is
\* NoBody when body.extractions is the array list
ExtractionsBodyError(body, list) ==
  IF body # NoBody /\ Falsy(body.extractions) THEN "Missing extractions"
  ELSE IF body # NoBody THEN "Invalid extractions format"
  ELSE IF Len(list) = 0 THEN "Empty extractions array"
  ELSE IF \E k \in 1 .. Len(list) : list[k] = NullEntry THEN "TypeError"
  ELSE IF \E k \in 1 .. Len(list) : ValidateExtraction(list[k]) # {}
  THEN "Invalid extraction objects"
  ELSE "none"

ExtractionsFind(r) ==
  /\ req[r].pc = "ext_find"
  /\ LET error == ExtractionsBodyError(req[r].body, req[r].list)
     IN IF InvalidDocumentId(req[r].id)
        THEN RespondInvalidId(r)
        ELSE IF error = "TypeError"
        THEN RespondError(r, 500, "internal", "INTERNAL_SERVER_ERROR", NoId)
        ELSE IF error # "none"
        THEN RespondError(r, 400, "validation", "VALIDATION_ERROR", NoId)
        ELSE IF DocsById(dbDocs, req[r].id) = {}
        THEN RespondNotFound(r)
        ELSE req' = [req EXCEPT ![r] = [@ EXCEPT !.pc = "ext_tx_del"]]
  /\ UNCHANGED <<dbDocs, dbExts, s3>>
  /\ UNCHANGED <<xvars, hvars>>

ExtractionsTxDelete(r) ==
  /\ req[r].pc = "ext_tx_del"
  /\ req' = [req EXCEPT ![r] = [@ EXCEPT !.pc = "ext_tx_del_wait",
                                         !.txWant = RowsOfDocument(dbExts, req[r].id)]]
  /\ UNCHANGED <<dbDocs, dbExts, s3>>
  /\ UNCHANGED <<xvars, hvars>>

ExtractionsTxDeleteDone(r) ==
  /\ req[r].pc = "ext_tx_del_wait"
  /\ LET rows == req[r].txWant \cap dbExts
     IN /\ ~ExtRowsLocked(r, rows)
        /\ req' = [req EXCEPT ![r] = [@ EXCEPT !.pc = "ext_tx_ins", !.txDelExt = rows,
                                               !.txWant = {}]]
  /\ UNCHANGED <<dbDocs, dbExts, s3>>
  /\ UNCHANGED <<xvars, hvars>>

ExtractionsTxCreate(r) ==
  /\ req[r].pc = "ext_tx_ins"
  /\ ~DocDeletedByOther(r, {req[r].id})
  /\ IF ForeignKeyOk(dbDocs, req[r].id)
     THEN req' = [req EXCEPT ![r] = [@ EXCEPT !.pc = "ext_tx_commit",
                     !.txShare = {req[r].id},
                     !.txInsExt = NewExtractionRows(r, req[r].id, req[r].list),
                     !.count = Len(req[r].list)]]
     ELSE Respond(r, 500, "db")
  /\ UNCHANGED <<dbDocs, dbExts, s3>>
  /\ UNCHANGED <<xvars, hvars>>

ExtractionsTxCommit(r) ==
  /\ req[r].pc = "ext_tx_commit"
  /\ dbExts' = (dbExts \ req[r].txDelExt) \cup req[r].txInsExt
  /\ Respond(r, 200, "none")
  /\ UNCHANGED <<dbDocs, s3>>
  /\ UNCHANGED <<xvars, hvars>>

\* ------------------------------------------------------------------------
\* GET /api/documents/{id}
\* ------------------------------------------------------------------------
GetDocument(r) ==
  /\ req[r].pc = "get_doc"
  /\ LET rows == DocsById(dbDocs, req[r].id)
     IN IF InvalidDocumentId(req[r].id)
        THEN RespondInvalidId(r)
        ELSE IF rows = {}
        THEN RespondNotFound(r)
        ELSE \E d \in rows :
               req' = [req EXCEPT ![r] = [@ EXCEPT !.pc = "done", !.status = 200,
                                                      !.reply = [type |-> "none",
                                                                 id |-> d.id]]]
  /\ UNCHANGED <<dbDocs, dbExts, s3>>
  /\ UNCHANGED <<xvars, hvars>>

\* ------------------------------------------------------------------------
\* GET /api/documents/{id}/extractions
\* ------------------------------------------------------------------------
\* findMany({ where: { documentId }, orderBy: { pageNumber: "asc" } })
OrderedByPage(rows) ==
  {seq \in [1 .. Cardinality(rows) -> rows] :
     /\ \A i, j \in DOMAIN seq : i # j => seq[i] # seq[j]
     /\ \A i, j \in DOMAIN seq : i < j => seq[i].pageNumber <= seq[j].pageNumber}

GetExtractionsFind(r) ==
  /\ req[r].pc = "getx_find"
  /\ IF InvalidDocumentId(req[r].id)
     THEN RespondInvalidId(r)
     ELSE IF DocsById(dbDocs, req[r].id) = {}
     THEN RespondNotFound(r)
     ELSE req' = [req EXCEPT ![r] = [@ EXCEPT !.pc = "getx_list"]]
  /\ UNCHANGED <<dbDocs, dbExts, s3>>
  /\ UNCHANGED <<xvars, hvars>>

GetExtractionsList(r) ==
  /\ req[r].pc = "getx_list"
  /\ \E seq \in OrderedByPage(RowsOfDocument(dbExts, req[r].id)) :
       req' = [req EXCEPT ![r] = [@ EXCEPT !.pc = "done", !.status = 200,
                                              !.reply = [type |-> "none", id |-> req[r].id,
                                                         rows |-> seq]]]
  /\ UNCHANGED <<dbDocs, dbExts, s3>>
  /\ UNCHANGED <<xvars, hvars>>

\* ------------------------------------------------------------------------
\* GET /api/documents/{id}/download-url
\* ------------------------------------------------------------------------
NaN == [type |-> "NaN"]

\* parseInt(searchParams.get("expiresIn") || "3600") for the query strings of
\* the model
ParseInt(v) ==
  IF Falsy(v) THEN Number(3600)
  ELSE IF v.str = "59" THEN Number(59)
  ELSE IF v.str = "604800" THEN Number(604800)
  ELSE NaN

ExpiresInQueries == {Undefined, String("59"), String("604800"), String("abc")}

GetDownloadUrlFind(r) ==
  /\ req[r].pc = "dl_find"
  /\ LET rows == DocsById(dbDocs, req[r].id)
         expiresIn == ParseInt(req[r].body.expiresIn)
     IN IF InvalidDocumentId(req[r].id)
        THEN RespondInvalidId(r)
        ELSE IF rows = {}
        THEN RespondNotFound(r)
        ELSE IF expiresIn = NaN
        THEN RespondError(r, 400, "validation", "VALIDATION_ERROR", NoId)
        ELSE IF expiresIn.n < 60 \/ expiresIn.n > 604800
        THEN RespondError(r, 400, "validation", "VALIDATION_ERROR", NoId)
        ELSE \E d \in rows :
               req' = [req EXCEPT ![r] = [@ EXCEPT !.pc = "dl_sign", !.foundId = d.id,
                                                      !.foundKey = d.fileKey]]
  /\ UNCHANGED <<dbDocs, dbExts, s3>>
  /\ UNCHANGED <<xvars, hvars>>

\* getPresignedDownloadUrl(document.fileKey, expiresIn) resolves or rejects
GetDownloadUrlSign(r) ==
  /\ req[r].pc = "dl_sign"
  /\ \/ req' = [req EXCEPT ![r] = [@ EXCEPT !.pc = "done", !.status = 200,
                                             !.reply = [type |-> "none",
                                                        id |-> req[r].foundId,
                                                        url |-> req[r].foundKey]]]
     \/ RespondError(r, 503, "s3", "SERVICE_UNAVAILABLE", NoId)
  /\ UNCHANGED <<dbDocs, dbExts, s3>>
  /\ UNCHANGED <<xvars, hvars>>

\* the database ends an open transaction (timeout, deadlock victim, lost
\* connection): the callback's statement throws and the handler's catch runs
TxAbort(r) ==
  /\ InTx(r)
  /\ Respond(r, 500, "db")
  /\ UNCHANGED <<dbDocs, dbExts, s3>>
  /\ UNCHANGED <<xvars, hvars>>

\* ------------------------------------------------------------------------
\* POST /api/documents/upload-url
\* ------------------------------------------------------------------------
Segments == {"", " ", "report", "pdf", "PDF", "txt"}
FileNames == UNION {[1 .. n -> Segments] : n \in 1 .. MaxSegments}

\* fileName.trim() === ""
TrimIsEmpty(segs) == Len(segs) = 1 /\ segs[1] \in {"", " "}

\* String.prototype.toLowerCase on a segment
ToLowerCase(seg) == IF seg = "PDF" THEN "pdf" ELSE seg

\* fileName.split(".").pop()?.toLowerCase()
FileExtension(segs) == ToLowerCase(segs[Len(segs)])

UploadUrlMissingFields(body) ==
  (IF Falsy(body.fileName) THEN {"fileName"} ELSE {})
    \cup (IF Falsy(body.contentType) THEN {"contentType"} ELSE {})

\* the createValidationError thrown for the body, or "none"
UploadUrlBodyError(body) ==
  IF UploadUrlMissingFields(body) # {} THEN "Missing required fields"
  ELSE IF body.fileName.type # "string" THEN "Invalid fileName"
  ELSE IF TrimIsEmpty(body.fileName.segs) THEN "Invalid fileName"
  ELSE IF FileExtension(body.fileName.segs) # "pdf" THEN "Invalid file extension"
  ELSE IF body.contentType # String("application/pdf") THEN "Invalid contentType"
  ELSE IF /\ body.expiresIn.type # "undefined"
          /\ (IF body.expiresIn.type # "number" THEN TRUE
              ELSE body.expiresIn.n < 60 \/ body.expiresIn.n > 3600)
       THEN "Invalid expiresIn parameter"
  ELSE IF /\ body.fileSize.type = "number"
          /\ body.fileSize.n # 0
          /\ body.fileSize.n > MAX_FILE_SIZE
       THEN "File too large"
  ELSE "none"

UploadUrlBodies ==
  [fileName : {Undefined, Number(7)} \cup {FileName(segs) : segs \in FileNames},
   contentType : {Undefined, String(""), String("application/pdf"), String("text/plain")},
   expiresIn : {Undefined, Number(59), Number(3600), String("300")},
   fileSize : {Undefined, Number(MAX_FILE_SIZE), Number(MAX_FILE_SIZE + 1)}]

\* the handler up to getPresignedUploadUrl; the route keeps no state, so one
\* request is followed
PostUploadUrl ==
  /\ req[1].kind = "idle"
  /\ \E body \in UploadUrlBodies :
       LET error == UploadUrlBodyError(body)
       IN req' = [req EXCEPT ![1] =
            IF error # "none"
            THEN [IdleReq EXCEPT !.kind = "upload_url", !.pc = "done", !.body = body,
                    !.status = 400, !.cause = "validation",
                    !.reply = [type |-> "VALIDATION_ERROR", message |-> error,
                               missingFields |-> UploadUrlMissingFields(body),
                               url |-> FALSE, key |-> FALSE]]
            ELSE [IdleReq EXCEPT !.kind = "upload_url", !.pc = "url_sign",
                                 !.body = body]]
  /\ UNCHANGED <<dbDocs, dbExts, s3>>
  /\ UNCHANGED <<xvars, hvars>>

\* getPresignedUploadUrl resolves with { url, key } or rejects
UploadUrlSign ==
  /\ req[1].pc = "url_sign"
  /\ \/ req' = [req EXCEPT ![1] = [@ EXCEPT !.pc = "done", !.status = 200,
                    !.reply = [type |-> "none", message |-> "none", missingFields |-> {},
                               url |-> TRUE, key |-> TRUE]]]
     \/ req' = [req EXCEPT ![1] = [@ EXCEPT !.pc = "done", !.status = 503,
                    !.cause = "s3",
                    !.reply = [type |-> "SERVICE_UNAVAILABLE",
                               message |-> "S3 service failed during generating upload URL",
                               missingFields |-> {}, url |-> FALSE, key |-> FALSE]]]
  /\ UNCHANGED <<dbDocs, dbExts, s3>>
  /\ UNCHANGED <<xvars, hvars>>

UploadUrlNext == PostUploadUrl \/ UploadUrlSign

\* ------------------------------------------------------------------------
\* Requests arriving at the routes
\* ------------------------------------------------------------------------
KnownIds == {Uuid(n) : n \in 0 .. NReq}

\* requests are numbered in the order of their arrival
Arrives(r) ==
  /\ req[r].kind = "idle"
  /\ \A o \in DOMAIN req : o < r => req[o].kind # "idle"

ArriveCreate(r) ==
  /\ Arrives(r)
  /\ \E slot \in Slots :
       req' = [req EXCEPT ![r] = CreateRequest(CreateBody(slot, r, r, 1024))]
  /\ s3' = s3 \cup {r}
  /\ UNCHANGED <<dbDocs, dbExts>>
  /\ UNCHANGED <<xvars, hvars>>

\* bodies of POST /api/documents sent by any client
FileSizes == {0, MAX_FILE_SIZE, MAX_FILE_SIZE + 1}
MimeTypes == {"", "application/pdf", "text/plain"}
CreateBodies(r) ==
  {[name |-> r, fileKey |-> r, fileSize |-> sz, mimeType |-> mt, slotId |-> slot] :
     sz \in FileSizes, mt \in MimeTypes, slot \in Slots}
  \cup {[fileKey |-> r, fileSize |-> MAX_FILE_SIZE + 1, mimeType |-> "text/plain",
         slotId |-> slot] : slot \in Slots}

PostDocument(r) ==
  /\ Arrives(r)
  /\ \E body \in CreateBodies(r) : req' = [req EXCEPT ![r] = CreateRequest(body)]
  /\ UNCHANGED <<dbDocs, dbExts, s3>>
  /\ UNCHANGED <<xvars, hvars>>

ArriveDelete(r) ==
  /\ Arrives(r)
  /\ \E id \in KnownIds, ok \in BOOLEAN :
       req' = [req EXCEPT ![r] = [IdleReq EXCEPT !.kind = "delete", !.pc = "del_find",
                                                 !.id = id, !.s3ok = ok]]
  /\ UNCHANGED <<dbDocs, dbExts, s3>>
  /\ UNCHANGED <<xvars, hvars>>

ArriveExtractions(r) ==
  /\ Arrives(r)
  /\ \E id \in KnownIds, list \in Lists :
       req' = [req EXCEPT ![r] = [IdleReq EXCEPT !.kind = "extractions", !.pc = "ext_find",
                                                 !.id = id, !.list = list]]
  /\ UNCHANGED <<dbDocs, dbExts, s3>>
  /\ UNCHANGED <<xvars, hvars>>

\* requests addressed by an id: the stored document's, an unknown one, and
\* one of white space
LookupIds == {Uuid(0), Uuid(1), BlankId}

ArriveGetDocument(r) ==
  /\ Arrives(r)
  /\ \E id \in LookupIds :
       req' = [req EXCEPT ![r] = [IdleReq EXCEPT !.kind = "get", !.pc = "get_doc",
                                                 !.id = id]]
  /\ UNCHANGED <<dbDocs, dbExts, s3>>
  /\ UNCHANGED <<xvars, hvars>>

ArriveGetExtractions(r) ==
  /\ Arrives(r)
  /\ \E id \in LookupIds :
       req' = [req EXCEPT ![r] = [IdleReq EXCEPT !.kind = "get_extractions",
                                                 !.pc = "getx_find", !.id = id]]
  /\ UNCHANGED <<dbDocs, dbExts, s3>>
  /\ UNCHANGED <<xvars, hvars>>

ArriveGetDownloadUrl(r) ==
  /\ Arrives(r)
  /\ \E id \in LookupIds, q \in ExpiresInQueries :
       req' = [req EXCEPT ![r] = [IdleReq EXCEPT !.kind = "download_url",
                                                 !.pc = "dl_find", !.id = id,
                                                 !.body = [expiresIn |-> q]]]
  /\ UNCHANGED <<dbDocs, dbExts, s3>>
  /\ UNCHANGED <<xvars, hvars>>

ArriveDeleteById(r) ==
  /\ Arrives(r)
  /\ \E id \in LookupIds, ok \in BOOLEAN :
       req' = [req EXCEPT ![r] = [IdleReq EXCEPT !.kind = "delete", !.pc = "del_find",
                                                 !.id = id, !.s3ok = ok]]
  /\ UNCHANGED <<dbDocs, dbExts, s3>>
  /\ UNCHANGED <<xvars, hvars>>

ArriveSaveById(r) ==
  /\ Arrives(r)
  /\ \E id \in LookupIds :
       req' = [req EXCEPT ![r] = [IdleReq EXCEPT !.kind = "extractions",
                                                 !.pc = "ext_find", !.id = id,
                                                 !.list = <<EntryB, EntryA>>]]
  /\ UNCHANGED <<dbDocs, dbExts, s3>>
  /\ UNCHANGED <<xvars, hvars>>

\* the operations addressed by a document id
LookupNext ==
  \E r \in 1 .. NReq :
    \/ ArriveGetDocument(r)
    \/ ArriveGetExtractions(r)
    \/ ArriveGetDownloadUrl(r)
    \/ ArriveDeleteById(r)
    \/ ArriveSaveById(r)
    \/ GetDocument(r)
    \/ GetExtractionsFind(r)
    \/ GetExtractionsList(r)
    \/ GetDownloadUrlFind(r)
    \/ GetDownloadUrlSign(r)
    \/ DeleteFind(r)
    \/ DeleteTxExtractions(r)
    \/ DeleteTxExtractionsDone(r)
    \/ DeleteTxDocument(r)
    \/ DeleteTxObject(r)
    \/ DeleteTxCommit(r)
    \/ ExtractionsFind(r)
    \/ ExtractionsTxDelete(r)
    \/ ExtractionsTxDeleteDone(r)
    \/ ExtractionsTxCreate(r)
    \/ ExtractionsTxCommit(r)
    \/ TxAbort(r)

\* bodies of POST /api/documents/{id}/extractions sent by any client
EmptyText == [src |-> "literal", idx |-> 0, len |-> 0]
ExtractionLists ==
  {<<>>, <<EntryB, EntryA>>,
   <<EntryA, [pageNumber |-> 1]>>,
   <<[text |-> EmptyText, pageNumber |-> 1]>>,
   <<[text |-> TextA, textType |-> "number", pageNumber |-> 1]>>,
   <<[text |-> TextA]>>,
   <<[text |-> TextA, pageNumber |-> 0], EntryA>>,
   <<[text |-> TextA, pageNumber |-> 1, pageNumberType |-> "string"]>>,
   <<EntryA, NullEntry>>}
ExtractionNonArrays == {[extractions |-> Undefined], [extractions |-> String("text")]}

PostExtractions(r) ==
  /\ Arrives(r)
  /\ \E id \in {Uuid(0), Uuid(1)} :
       \/ \E list \in ExtractionLists :
            req' = [req EXCEPT ![r] = [IdleReq EXCEPT !.kind = "extractions",
                                         !.pc = "ext_find", !.id = id, !.list = list]]
       \/ \E body \in ExtractionNonArrays :
            req' = [req EXCEPT ![r] = [IdleReq EXCEPT !.kind = "extractions",
                                         !.pc = "ext_find", !.id = id, !.body = body]]
  /\ UNCHANGED <<dbDocs, dbExts, s3>>
  /\ UNCHANGED <<xvars, hvars>>

\* POST /api/documents/{id}/extractions alone, with any body
SaveNext ==
  \E r \in 1 .. NReq :
    \/ PostExtractions(r)
    \/ ExtractionsFind(r)
    \/ ExtractionsTxDelete(r)
    \/ ExtractionsTxDeleteDone(r)
    \/ ExtractionsTxCreate(r)
    \/ ExtractionsTxCommit(r)
    \/ TxAbort(r)

XIdle ==
  /\ fn = "none"
  /\ documentId = NoId
  /\ pageCount = 1
  /\ pdfOpens = TRUE
  /\ pages = <<PageEmpty>>
  /\ xpc = "idle"
  /\ pageNum = 1
  /\ extractions = <<>>
  /\ processedPages = {}
  /\ usedPages = {}
  /\ iter = 0
  /\ mockCount = 0
  /\ result = <<>>

SIdle ==
  /\ dbDocs = {}
  /\ dbExts = {}
  /\ s3 = {}
  /\ req = [r \in 1 .. NReq |-> IdleReq]

HookIds == Slots \cup {Uuid(n) : n \in 0 .. NOps}

\* no cached URL
NoUrl == [id |-> NoId, key |-> 0]

\* the modal closed, nothing selected
IdleModal ==
  [isOpen |-> FALSE, slot |-> NoId, file |-> 0, isLoading |-> FALSE, pc |-> "idle",
   arg |-> 0, call |-> 0, timers |-> 0, failed |-> FALSE]

\* useState<number | null>(null), useState<number>(1); numPages 0 is null
ClosedPreview ==
  [isOpen |-> FALSE, doc |-> 1, loaded |-> FALSE, numPages |-> 0, pageNumber |-> 1]

UIdle ==
  /\ documentUrls = [k \in HookIds |-> NoUrl]
  /\ modal = IdleModal
  /\ preview = ClosedPreview

HIdle ==
  /\ documents = [s \in Slots |-> NullDoc]
  /\ isLoaded = FALSE
  /\ op = [o \in 1 .. NOps |-> IdleOp]
  /\ UIdle

ServerStep(r) ==
  \/ CreateFind(r)
  \/ CreateUpdate(r)
  \/ CreateInsert(r)
  \/ DeleteFind(r)
  \/ DeleteTxExtractions(r)
  \/ DeleteTxExtractionsDone(r)
  \/ DeleteTxDocument(r)
  \/ DeleteTxObject(r)
  \/ DeleteTxCommit(r)
  \/ ExtractionsFind(r)
  \/ ExtractionsTxDelete(r)
  \/ ExtractionsTxDeleteDone(r)
  \/ ExtractionsTxCreate(r)
  \/ ExtractionsTxCommit(r)
  \/ TxAbort(r)

SNext ==
  \E r \in 1 .. NReq :
    \/ ArriveCreate(r)
    \/ ArriveDelete(r)
    \/ ArriveExtractions(r)
    \/ ServerStep(r)


\* ------------------------------------------------------------------------
\* useDocuments (src/hooks/use-documents.ts)
\* ------------------------------------------------------------------------
\* files handed to uploadDocument; pageCount is the file's number of pages
FileUnreadable == [opens |-> FALSE, pages |-> <<PageEmpty>>]
FileHits == [opens |-> TRUE, pages |-> <<PageHit3, PageHit1>>]
FileMiss == [opens |-> TRUE, pages |-> <<PageMiss>>]
FileBlank == [opens |-> TRUE, pages |-> <<PageEmpty>>]
Files == <<FileUnreadable, FileHits, FileMiss, FileBlank>>

\* documentId.startsWith("doc-")
IsSlotId(id) == id.kind = "slot"

\* the slot whose document has the given id (for (const [slot, doc] of ...))
SlotsHolding(docs, id) == {sl \in Slots : docs[sl] # NullDoc /\ docs[sl].id = id}

\* setDocuments((prev) => ({ ...prev, [slotId]: value }))
PutSlot(docs, slot, value) ==
  IF slot \in DOMAIN docs THEN [docs EXCEPT ![slot] = value] ELSE docs

\* the effect run on mount: GET /api/documents, then setDocuments(documentMap)
FetchDocuments ==
  /\ ~isLoaded
  /\ \E map \in [Slots -> {NullDoc} \cup {[id |-> d.id, name |-> d.name] : d \in dbDocs}] :
       /\ \A sl \in Slots :
            IF DocsBySlot(dbDocs, sl) = {}
            THEN map[sl] = NullDoc
            ELSE \E d \in DocsBySlot(dbDocs, sl) : map[sl] = [id |-> d.id, name |-> d.name]
       /\ documents' = map
  /\ isLoaded' = TRUE
  /\ UNCHANGED <<op, uvars>>
  /\ UNCHANGED <<xvars, svars>>

\* the calls are numbered in the order in which they are made
Called(o) ==
  /\ isLoaded
  /\ op[o].kind = "idle"
  /\ \A q \in DOMAIN op : q < o => op[q].kind # "idle"

\* catch (error) { ...; throw error; }
Throws(o, at) ==
  op' = [op EXCEPT ![o] = [@ EXCEPT !.pc = "done", !.outcome = "threw", !.failedAt = at]]

\* uploadDocument(slotId, file, pageCount): temporary document, then
\* fetch("/api/documents/upload-url")
UploadCall(o, slot, f) ==
  /\ Called(o)
  /\ op' = [op EXCEPT ![o] = [IdleOp EXCEPT !.kind = "upload", !.pc = "up_url",
                                            !.slotId = slot, !.file = f, !.key = o,
                                            !.wasEmpty = (documents[slot] = NullDoc)]]
  /\ documents' = PutSlot(documents, slot, [id |-> slot, name |-> f])
  /\ UNCHANGED <<isLoaded, documentUrls>>
  /\ UNCHANGED <<xvars, svars>>

\* uploadDocument called for any slot with any file
UploadStart(o) ==
  /\ \E slot \in Slots, f \in 1 .. Len(Files) : UploadCall(o, slot, f)
  /\ UNCHANGED <<modal, preview>>

\* the pre-signed URL arrives (or not); then fetch(presignedUrl, PUT)
UploadUrl(o) ==
  /\ op[o].pc = "up_url"
  /\ \/ op' = [op EXCEPT ![o] = [@ EXCEPT !.pc = "up_put"]]
     \/ Throws(o, "url")
  /\ UNCHANGED <<documents, isLoaded, uvars>>
  /\ UNCHANGED <<xvars, svars>>

\* a transfer whose failure is ignored
UploadPutIgnoresFailure(o) ==
  /\ op[o].pc = "up_put"
  /\ \/ s3' = s3 \cup {op[o].key}
     \/ s3' = s3
  /\ req' = [req EXCEPT ![o] = CreateRequest(CreateBody(op[o].slotId, op[o].key,
                                                        op[o].file, 1024))]
  /\ op' = [op EXCEPT ![o] = [@ EXCEPT !.pc = "up_create"]]
  /\ UNCHANGED <<documents, isLoaded, uvars, dbDocs, dbExts>>
  /\ UNCHANGED xvars

\* the bytes are stored (or not); then fetch("/api/documents", POST)
UploadPut(o) ==
  /\ op[o].pc = "up_put"
  /\ \/ /\ s3' = s3 \cup {op[o].key}
        /\ req' = [req EXCEPT ![o] = CreateRequest(CreateBody(op[o].slotId, op[o].key,
                                                              op[o].file, 1024))]
        /\ op' = [op EXCEPT ![o] = [@ EXCEPT !.pc = "up_create"]]
     \/ /\ Throws(o, "put")
        /\ UNCHANGED <<s3, req>>
  /\ UNCHANGED <<documents, isLoaded, uvars, dbDocs, dbExts>>
  /\ UNCHANGED xvars

\* the record is created (or not); then generateExtractionsFromPdf is called
UploadCreated(o) ==
  /\ op[o].pc = "up_create"
  /\ req[o].pc = "done"
  /\ IF req[o].status = 200
     THEN /\ xpc = "idle"
          /\ op' = [op EXCEPT ![o] = [@ EXCEPT !.pc = "up_extract", !.docId = req[o].id]]
          /\ fn' = "pdf"
          /\ documentId' = req[o].id
          /\ pageCount' = Len(Files[op[o].file].pages)
          /\ pdfOpens' = Files[op[o].file].opens
          /\ pages' = Files[op[o].file].pages
          /\ xpc' = "open"
          /\ UNCHANGED <<pageNum, extractions, processedPages, usedPages, iter,
                         mockCount, result>>
     ELSE /\ Throws(o, "create")
          /\ UNCHANGED xvars
  /\ UNCHANGED <<documents, isLoaded, uvars>>
  /\ UNCHANGED svars

\* generateExtractionsFromPdf returned or threw; then
\* fetch(`/api/documents/${documentData.id}/extractions`, POST)
UploadExtracted(o) ==
  /\ op[o].pc = "up_extract"
  /\ xpc \in {"returned", "thrown"}
  /\ IF xpc = "returned"
     THEN /\ req' = [req EXCEPT ![o] = [IdleReq EXCEPT !.kind = "extractions",
                                                      !.pc = "ext_find",
                                                      !.id = op[o].docId,
                                                      !.list = result]]
          /\ op' = [op EXCEPT ![o] = [@ EXCEPT !.pc = "up_save"]]
     ELSE /\ op' = [op EXCEPT ![o] = [@ EXCEPT !.pc = "done", !.outcome = "threw",
                                               !.failedAt = "extract",
                                               !.pipelineThrew = TRUE]]
          /\ UNCHANGED req
  /\ fn' = "none"
  /\ documentId' = NoId
  /\ pageCount' = 1
  /\ pdfOpens' = TRUE
  /\ pages' = <<PageEmpty>>
  /\ xpc' = "idle"
  /\ pageNum' = 1
  /\ extractions' = <<>>
  /\ processedPages' = {}
  /\ usedPages' = {}
  /\ iter' = 0
  /\ mockCount' = 0
  /\ result' = <<>>
  /\ UNCHANGED <<documents, isLoaded, uvars, dbDocs, dbExts, s3>>

\* the final document never replaces the temporary one
UploadSavedKeepsTemporary(o) ==
  /\ op[o].pc = "up_save"
  /\ req[o].pc = "done"
  /\ IF req[o].status = 200
     THEN op' = [op EXCEPT ![o] = [@ EXCEPT !.pc = "done", !.outcome = "ok"]]
     ELSE Throws(o, "save")
  /\ UNCHANGED <<documents, isLoaded, uvars>>
  /\ UNCHANGED <<xvars, svars>>

\* the batch is saved (or not); then the final document enters the registry
UploadSaved(o) ==
  /\ op[o].pc = "up_save"
  /\ req[o].pc = "done"
  /\ IF req[o].status = 200
     THEN /\ documents' = PutSlot(documents, op[o].slotId,
                                  [id |-> op[o].docId, name |-> op[o].file])
          /\ op' = [op EXCEPT ![o] = [@ EXCEPT !.pc = "done", !.outcome = "ok"]]
     ELSE /\ Throws(o, "save")
          /\ UNCHANGED documents
  /\ UNCHANGED <<isLoaded, uvars>>
  /\ UNCHANGED <<xvars, svars>>

\* getExtractions: resolve the id, then
\* fetch(`/api/documents/${actualDocumentId}/extractions`)
GetExtractionsStart(o) ==
  /\ Called(o)
  /\ \E arg \in HookIds :
       IF IsSlotId(arg) /\ (documents[arg] = NullDoc \/ IsSlotId(documents[arg].id))
       THEN /\ op' = [op EXCEPT ![o] = [IdleOp EXCEPT !.kind = "extractions",
                                                      !.pc = "done", !.slotId = arg,
                                                      !.outcome = "empty"]]
            /\ UNCHANGED req
       ELSE LET actualDocumentId == IF IsSlotId(arg) THEN documents[arg].id ELSE arg
            IN /\ op' = [op EXCEPT ![o] = [IdleOp EXCEPT !.kind = "extractions",
                                                         !.pc = "getx_wait",
                                                         !.slotId = arg,
                                                         !.actualId = actualDocumentId]]
               /\ req' = [req EXCEPT ![o] = [IdleReq EXCEPT !.kind = "get_extractions",
                                                           !.pc = "getx_find",
                                                           !.id = actualDocumentId]]
  /\ UNCHANGED <<documents, isLoaded, uvars, dbDocs, dbExts, s3>>
  /\ UNCHANGED xvars

\* the response arrives: if (!response.ok) throw; else the list is returned
GetExtractionsDone(o) ==
  /\ op[o].pc = "getx_wait"
  /\ req[o].pc = "done"
  /\ IF req[o].status = 200
     THEN op' = [op EXCEPT ![o] = [@ EXCEPT !.pc = "done", !.outcome = "list"]]
     ELSE Throws(o, "extractions")
  /\ UNCHANGED <<documents, isLoaded, uvars>>
  /\ UNCHANGED <<xvars, svars>>

\* getDocumentFileUrl: the cached URL, or resolve the id, then
\* fetch(`/api/documents/${actualDocumentId}/download-url`)
GetUrlStart(o) ==
  /\ Called(o)
  /\ \E arg \in HookIds :
       IF documentUrls[arg] # NoUrl
       THEN /\ op' = [op EXCEPT ![o] = [IdleOp EXCEPT !.kind = "url", !.pc = "done",
                                                      !.slotId = arg,
                                                      !.outcome = "cached"]]
            /\ UNCHANGED req
       ELSE IF IsSlotId(arg) /\ documents[arg] = NullDoc
       THEN /\ op' = [op EXCEPT ![o] = [IdleOp EXCEPT !.kind = "url", !.pc = "done",
                                                      !.slotId = arg,
                                                      !.outcome = "null"]]
            /\ UNCHANGED req
       ELSE LET actualDocumentId == IF IsSlotId(arg) THEN documents[arg].id ELSE arg
                cacheKey == IF IsSlotId(arg) \/ SlotsHolding(documents, arg) = {}
                            THEN arg
                            ELSE CHOOSE sl \in SlotsHolding(documents, arg) : TRUE
            IN /\ op' = [op EXCEPT ![o] = [IdleOp EXCEPT !.kind = "url",
                                                         !.pc = "url_wait",
                                                         !.slotId = cacheKey,
                                                         !.actualId = actualDocumentId]]
               /\ req' = [req EXCEPT ![o] = [IdleReq EXCEPT !.kind = "download_url",
                                                           !.pc = "dl_find",
                                                           !.id = actualDocumentId,
                                                           !.body = [expiresIn |-> Undefined]]]
  /\ UNCHANGED <<documents, isLoaded, uvars, dbDocs, dbExts, s3>>
  /\ UNCHANGED xvars

\* the response arrives: the URL is cached under the cache key and returned;
\* if (!response.ok) the catch returns null
GetUrlDone(o) ==
  /\ op[o].pc = "url_wait"
  /\ req[o].pc = "done"
  /\ IF req[o].status = 200
     THEN /\ documentUrls' = [documentUrls EXCEPT ![op[o].slotId] =
                                 [id |-> req[o].reply.id, key |-> req[o].reply.url]]
          /\ op' = [op EXCEPT ![o] = [@ EXCEPT !.pc = "done", !.outcome = "url"]]
     ELSE /\ op' = [op EXCEPT ![o] = [@ EXCEPT !.pc = "done", !.outcome = "null"]]
          /\ UNCHANGED documentUrls
  /\ UNCHANGED <<documents, isLoaded, modal, preview>>
  /\ UNCHANGED <<xvars, svars>>

\* deleteDocument: resolve the id, then fetch(`/api/documents/${id}`, DELETE)
DeleteStart(o) ==
  /\ Called(o)
  /\ \E arg \in HookIds, ok \in BOOLEAN :
       IF IsSlotId(arg) /\ documents[arg] = NullDoc
       THEN /\ op' = [op EXCEPT ![o] = [IdleOp EXCEPT !.kind = "delete", !.pc = "done",
                                                      !.slotId = arg,
                                                      !.outcome = "false"]]
            /\ UNCHANGED req
       ELSE LET actualDocumentId == IF IsSlotId(arg) THEN documents[arg].id ELSE arg
                slotId == IF IsSlotId(arg) \/ SlotsHolding(documents, arg) = {}
                          THEN arg
                          ELSE CHOOSE sl \in SlotsHolding(documents, arg) : TRUE
            IN /\ op' = [op EXCEPT ![o] = [IdleOp EXCEPT !.kind = "delete",
                                                         !.pc = "del_wait",
                                                         !.slotId = slotId,
                                                         !.actualId = actualDocumentId,
                                                         !.s3ok = ok]]
               /\ req' = [req EXCEPT ![o] = [IdleReq EXCEPT !.kind = "delete",
                                                           !.pc = "del_find",
                                                           !.id = actualDocumentId,
                                                           !.s3ok = ok]]
  /\ UNCHANGED <<documents, isLoaded, uvars, dbDocs, dbExts, s3>>
  /\ UNCHANGED xvars

\* the slot is cleared whatever the response
DeleteDoneAlwaysClears(o) ==
  /\ op[o].pc = "del_wait"
  /\ req[o].pc = "done"
  /\ documents' = PutSlot(documents, op[o].slotId, NullDoc)
  /\ IF req[o].status = 200
     THEN op' = [op EXCEPT ![o] = [@ EXCEPT !.pc = "done", !.outcome = "true"]]
     ELSE Throws(o, "delete")
  /\ documentUrls' = [documentUrls EXCEPT ![op[o].slotId] = NoUrl]
  /\ UNCHANGED <<isLoaded, modal, preview>>
  /\ UNCHANGED <<xvars, svars>>

\* the response arrives: if (!response.ok) throw; else the slot is cleared
DeleteDone(o) ==
  /\ op[o].pc = "del_wait"
  /\ req[o].pc = "done"
  /\ IF req[o].status = 200
     THEN /\ documents' = PutSlot(documents, op[o].slotId, NullDoc)
          /\ documentUrls' = [documentUrls EXCEPT ![op[o].slotId] = NoUrl]
          /\ op' = [op EXCEPT ![o] = [@ EXCEPT !.pc = "done", !.outcome = "true"]]
     ELSE /\ Throws(o, "delete")
          /\ UNCHANGED <<documents, documentUrls>>
  /\ UNCHANGED <<isLoaded, modal, preview>>
  /\ UNCHANGED <<xvars, svars>>

HNext ==
  \/ FetchDocuments
  \/ \E o \in 1 .. NOps :
       \/ UploadStart(o)
       \/ UploadUrl(o)
       \/ UploadPut(o)
       \/ UploadCreated(o)
       \/ UploadExtracted(o)
       \/ UploadSaved(o)
       \/ DeleteStart(o)
       \/ DeleteDone(o)
       \/ ServerStep(o)
  \/ OpenPdf
  \/ ScanPage
  \/ ScanDone
  \/ BackfillIter
  \/ BackfillDone
  \/ FinalCheck

HInit ==
  /\ \/ dbDocs = {} /\ dbExts = {} /\ s3 = {}
     \/ dbDocs = {OldDoc} /\ dbExts = OldExts /\ s3 = {0}
  /\ req = [o \in 1 .. NOps |-> IdleReq]
  /\ documents = [sl \in Slots |-> NullDoc]
  /\ isLoaded = FALSE
  /\ op = [o \in 1 .. NOps |-> IdleOp]
  /\ UIdle

HookInit == XIdle /\ HInit
SpecHook == HookInit /\ [][HNext]_vars

\* deleteDocument alone: the registry is loaded, then only deletions are called
DeleteNext ==
  \/ FetchDocuments
  \/ \E o \in 1 .. NOps :
       \/ DeleteStart(o)
       \/ DeleteDone(o)
       \/ DeleteFind(o)
       \/ DeleteTxExtractions(o)
       \/ DeleteTxExtractionsDone(o)
       \/ DeleteTxDocument(o)
       \/ DeleteTxObject(o)
       \/ DeleteTxCommit(o)
       \/ TxAbort(o)

SpecDelete == HookInit /\ [][DeleteNext]_vars

\* ------------------------------------------------------------------------
\* UploadModal (src/unnamed/part_000) and handleFileUpload of the dashboard
\* ------------------------------------------------------------------------
\* onClose(): uploadModalOpen false; the effect on isOpen starts the timer
CloseModal(m) == [m EXCEPT !.isOpen = FALSE, !.timers = Min(m.timers + 1, MaxTimers)]

\* handleUploadClick(id): an empty document box is clicked
HandleUploadClick ==
  /\ isLoaded
  /\ ~modal.isOpen /\ ~preview.isOpen
  /\ \E slot \in Slots :
       /\ documents[slot] = NullDoc
       /\ modal' = [modal EXCEPT !.isOpen = TRUE, !.slot = slot]
  /\ UNCHANGED <<documents, isLoaded, op, documentUrls, preview>>
  /\ UNCHANGED <<xvars, svars>>

\* validateAndSetFile(file) with a PDF within the size limit
SelectFile ==
  /\ modal.isOpen
  /\ \E f \in 1 .. Len(Files) :
       /\ f # modal.file
       /\ modal' = [modal EXCEPT !.file = f]
  /\ UNCHANGED <<documents, isLoaded, op, documentUrls, preview>>
  /\ UNCHANGED <<xvars, svars>>

\* handleUpload up to await getPdfPageCount(file); the Upload button is
\* disabled={!file || isLoading}
HandleUpload ==
  /\ modal.isOpen /\ modal.file # 0 /\ ~modal.isLoading
  /\ modal.pc = "idle"
  /\ \E o \in DOMAIN op : op[o].kind = "idle"
  /\ modal' = [modal EXCEPT !.isLoading = TRUE, !.pc = "counting", !.arg = modal.file,
                            !.failed = FALSE]
  /\ UNCHANGED <<documents, isLoaded, op, documentUrls, preview>>
  /\ UNCHANGED <<xvars, svars>>

\* getPdfPageCount resolves: onUpload(file, pageCount) runs handleFileUpload
\* up to the first await of uploadDocument; it rejects: the catch shows a
\* toast and sets the progress to 0
ModalPageCounted(o) ==
  /\ modal.pc = "counting"
  /\ Called(o)
  /\ IF Files[modal.arg].opens
     THEN /\ UploadCall(o, modal.slot, modal.arg)
          /\ modal' = [modal EXCEPT !.pc = "uploading", !.call = o]
     ELSE /\ modal' = [modal EXCEPT !.pc = "idle", !.failed = TRUE]
          /\ UNCHANGED <<documents, isLoaded, op, documentUrls>>
          /\ UNCHANGED <<xvars, svars>>
  /\ UNCHANGED preview

\* handleFileUpload after await uploadDocument: on success the modal is
\* closed, the URL is fetched (and cached) or not, and the preview is opened
\* (processDocumentUrl and processDocumentExtractions swallow their errors);
\* on failure the catch shows a toast
DashboardUploadEnded ==
  /\ modal.pc = "uploading"
  /\ op[modal.call].pc = "done"
  /\ IF op[modal.call].outcome = "ok"
     THEN /\ modal' = [CloseModal(modal) EXCEPT !.pc = "idle"]
          /\ \/ UNCHANGED documentUrls
             \/ /\ documentUrls[modal.slot] = NoUrl
                /\ \E d \in DocsById(dbDocs, op[modal.call].docId) :
                     documentUrls' = [documentUrls EXCEPT ![modal.slot] =
                                        [id |-> d.id, key |-> d.fileKey]]
          /\ preview' = [preview EXCEPT !.isOpen = TRUE, !.loaded = FALSE,
                                        !.doc = Len(Files[modal.arg].pages)]
     ELSE /\ modal' = [modal EXCEPT !.pc = "idle", !.failed = TRUE]
          /\ UNCHANGED <<documentUrls, preview>>
  /\ UNCHANGED <<documents, isLoaded, op>>
  /\ UNCHANGED <<xvars, svars>>

\* handleCancel: the Cancel button is disabled={isLoading}
HandleCancel ==
  /\ modal.isOpen /\ ~modal.isLoading
  /\ modal' = [CloseModal(modal) EXCEPT !.file = 0]
  /\ UNCHANGED <<documents, isLoaded, op, documentUrls, preview>>
  /\ UNCHANGED <<xvars, svars>>

\* Dialog onOpenChange: if (!isLoading) onClose()
DialogClose ==
  /\ modal.isOpen /\ ~modal.isLoading
  /\ modal' = CloseModal(modal)
  /\ UNCHANGED <<documents, isLoaded, op, documentUrls, preview>>
  /\ UNCHANGED <<xvars, svars>>

\* the timer of the reset effect fires, 300 ms after isOpen became false
ResetTimer ==
  /\ modal.timers > 0
  /\ modal' = [modal EXCEPT !.timers = modal.timers - 1, !.file = 0,
                            !.isLoading = FALSE]
  /\ UNCHANGED <<documents, isLoaded, op, documentUrls, preview>>
  /\ UNCHANGED <<xvars, svars>>

\* ------------------------------------------------------------------------
\* DocumentPreviewModal (src/components/document-preview-modal.tsx)
\* ------------------------------------------------------------------------
\* handlePreviewClick: the preview is opened on a document of n pages
OpenPreview ==
  /\ ~preview.isOpen /\ ~modal.isOpen
  /\ \E n \in 1 .. MaxPages :
       preview' = [preview EXCEPT !.isOpen = TRUE, !.doc = n, !.loaded = FALSE]
  /\ UNCHANGED <<documents, isLoaded, op, documentUrls, modal>>
  /\ UNCHANGED <<xvars, svars>>

\* onDocumentLoadSuccess({ numPages })
LoadSuccess ==
  /\ preview.isOpen /\ ~preview.loaded
  /\ preview' = [preview EXCEPT !.loaded = TRUE, !.numPages = preview.doc]
  /\ UNCHANGED <<documents, isLoaded, op, documentUrls, modal>>
  /\ UNCHANGED <<xvars, svars>>

\* numPages || 1
NumPagesOrOne(p) == IF p.numPages = 0 THEN 1 ELSE p.numPages

\* goToPage(page)
GoToPage(p, page) ==
  IF page >= 1 /\ page <= NumPagesOrOne(p)
  THEN [p EXCEPT !.pageNumber = page]
  ELSE p

\* the Previous button, disabled={pageNumber <= 1 || isDisabled}
PreviousPage ==
  /\ preview.isOpen /\ preview.pageNumber > 1
  /\ preview' = GoToPage(preview, preview.pageNumber - 1)
  /\ UNCHANGED <<documents, isLoaded, op, documentUrls, modal>>
  /\ UNCHANGED <<xvars, svars>>

\* the Next button, disabled={pageNumber >= (numPages || 1) || isDisabled}
NextPage ==
  /\ preview.isOpen /\ preview.pageNumber < NumPagesOrOne(preview)
  /\ preview' = GoToPage(preview, preview.pageNumber + 1)
  /\ UNCHANGED <<documents, isLoaded, op, documentUrls, modal>>
  /\ UNCHANGED <<xvars, svars>>

\* Go to Page of an extraction: goToPage(extraction.pageNumber)
GoToExtractionPage ==
  /\ preview.isOpen
  /\ \E page \in 1 .. preview.doc :
       /\ GoToPage(preview, page) # preview
       /\ preview' = GoToPage(preview, page)
  /\ UNCHANGED <<documents, isLoaded, op, documentUrls, modal>>
  /\ UNCHANGED <<xvars, svars>>

\* Dialog onOpenChange={onClose}: previewModalOpen false
ClosePreview ==
  /\ preview.isOpen
  /\ preview' = [preview EXCEPT !.isOpen = FALSE]
  /\ UNCHANGED <<documents, isLoaded, op, documentUrls, modal>>
  /\ UNCHANGED <<xvars, svars>>

\* the preview modal, opened on documents of any page count
PreviewNext ==
  \/ OpenPreview
  \/ LoadSuccess
  \/ PreviousPage
  \/ NextPage
  \/ GoToExtractionPage
  \/ ClosePreview

SpecPreview == HookInit /\ [][PreviewNext]_vars

\* what the user does with the upload modal
ModalUserNext ==
  \/ HandleUploadClick
  \/ SelectFile
  \/ HandleUpload
  \/ HandleCancel
  \/ DialogClose
  \/ ClosePreview

\* what happens without the user: timers, promises, requests
ModalSystemNext ==
  \/ FetchDocuments
  \/ DashboardUploadEnded
  \/ ResetTimer
  \/ \E o \in 1 .. NOps :
       \/ ModalPageCounted(o)
       \/ UploadUrl(o)
       \/ UploadPut(o)
       \/ UploadCreated(o)
       \/ UploadExtracted(o)
       \/ UploadSaved(o)
       \/ CreateFind(o)
       \/ CreateUpdate(o)
       \/ CreateInsert(o)
       \/ ExtractionsFind(o)
       \/ ExtractionsTxDelete(o)
       \/ ExtractionsTxDeleteDone(o)
       \/ ExtractionsTxCreate(o)
       \/ ExtractionsTxCommit(o)
       \/ TxAbort(o)
  \/ OpenPdf
  \/ ScanPage
  \/ ScanDone
  \/ BackfillIter
  \/ BackfillDone
  \/ FinalCheck

ModalNext == ModalUserNext \/ ModalSystemNext

\* timers fire, promises settle and requests are answered; the user need
\* not do anything
SpecModal == HookInit /\ [][ModalNext]_vars /\ WF_vars(ModalSystemNext)

\* the URL cache: getDocumentFileUrl and deleteDocument, called at any time
UrlNext ==
  \/ FetchDocuments
  \/ \E o \in 1 .. NOps :
       \/ GetUrlStart(o)
       \/ GetUrlDone(o)
       \/ GetDownloadUrlFind(o)
       \/ GetDownloadUrlSign(o)
       \/ DeleteStart(o)
       \/ DeleteDone(o)
       \/ DeleteFind(o)
       \/ DeleteTxExtractions(o)
       \/ DeleteTxExtractionsDone(o)
       \/ DeleteTxDocument(o)
       \/ DeleteTxObject(o)
       \/ DeleteTxCommit(o)
       \/ TxAbort(o)

SpecUrl == HookInit /\ [][UrlNext]_vars

\* uploadDocument alone: the registry is loaded, then only uploads are called
UploadNext ==
  \/ FetchDocuments
  \/ \E o \in 1 .. NOps :
       \/ UploadStart(o)
       \/ UploadUrl(o)
       \/ UploadPut(o)
       \/ UploadCreated(o)
       \/ UploadExtracted(o)
       \/ UploadSaved(o)
       \/ CreateFind(o)
       \/ CreateUpdate(o)
       \/ CreateInsert(o)
       \/ ExtractionsFind(o)
       \/ ExtractionsTxDelete(o)
       \/ ExtractionsTxDeleteDone(o)
       \/ ExtractionsTxCreate(o)
       \/ ExtractionsTxCommit(o)
       \/ TxAbort(o)
  \/ OpenPdf
  \/ ScanPage
  \/ ScanDone
  \/ BackfillIter
  \/ BackfillDone
  \/ FinalCheck

SpecUpload == HookInit /\ [][UploadNext]_vars

\* the registry: uploads, deletions and reads of the extractions, the calls
\* made at any time
RegistryNext ==
  \/ FetchDocuments
  \/ \E o \in 1 .. NOps :
       \/ UploadStart(o)
       \/ UploadUrl(o)
       \/ UploadPut(o)
       \/ UploadCreated(o)
       \/ UploadExtracted(o)
       \/ UploadSaved(o)
       \/ DeleteStart(o)
       \/ DeleteDone(o)
       \/ GetExtractionsStart(o)
       \/ GetExtractionsDone(o)
       \/ GetExtractionsFind(o)
       \/ GetExtractionsList(o)
       \/ ServerStep(o)
  \/ OpenPdf
  \/ ScanPage
  \/ ScanDone
  \/ BackfillIter
  \/ BackfillDone
  \/ FinalCheck

SpecRegistry == HookInit /\ [][RegistryNext]_vars

\* POST /api/documents alone, with any body
CreateNext ==
  \E r \in 1 .. NReq :
    \/ PostDocument(r)
    \/ CreateFind(r)
    \/ CreateUpdate(r)
    \/ CreateInsert(r)

ExtractInit == XInit /\ SIdle /\ HIdle
SpecExtract == ExtractInit /\ [][XNext]_vars

ServerInit == XIdle /\ SInit /\ HIdle
SpecServer == ServerInit /\ [][SNext]_vars
SpecCreate == ServerInit /\ [][CreateNext]_vars
SpecUploadUrl == ServerInit /\ [][UploadUrlNext]_vars
SpecSave == ServerInit /\ [][SaveNext]_vars
SpecLookup == ServerInit /\ [][LookupNext]_vars

\* ------------------------------------------------------------------------
\* Properties
\* ------------------------------------------------------------------------
Returned == fn = "pdf" /\ xpc = "returned"

\* C1: the backfill loop of generateExtractionsFromPdf runs at most a constant
\* (here 5, the largest backfill target) times pageCount iterations.
C1_BackfillIterationsBounded ==
  (fn = "pdf" /\ xpc = "backfill") => iter <= BackfillTarget * pageCount

\* C3: a list returned by generateExtractionsFromPdf is non-empty, has at most
\* 2 x pageCount entries, and every pageNumber lies in 1 .. pageCount.
C3_ResultBounds ==
  Returned =>
    /\ Len(result) > 0
    /\ Len(result) <= 2 * pageCount
    /\ \A k \in 1 .. Len(result) : result[k].pageNumber \in 1 .. pageCount

C3_Witness ==
  /\ Returned
  /\ pageCount >= 2
  /\ Len(result) = 2 * pageCount

\* C4: in the list returned by generateExtractionsFromPdf no page number
\* occurs more than twice, backfill entries included.
C4_AtMostTwoPerPage ==
  Returned => \A p \in 1 .. pageCount : CountOnPage(result, p) <= 2

\* C5: generateMockExtractions returns 3 to 7 extractions, each on a page in
\* 1 .. pageCount, with a text of the 15-entry catalog and the given
\* documentId, and it never throws.
C5_MockBounds ==
  fn = "mock" =>
    /\ xpc # "thrown"
    /\ xpc = "returned" =>
         /\ Len(result) >= 3
         /\ Len(result) <= 7
         /\ \A k \in 1 .. Len(result) :
              /\ result[k].pageNumber \in 1 .. pageCount
              /\ result[k].text.src = "mock"
              /\ result[k].text.idx \in 0 .. 14
              /\ result[k].documentId = documentId

C5_Witness ==
  /\ fn = "mock"
  /\ xpc = "returned"
  /\ pageCount >= 2
  /\ Len(result) = 7
  /\ \E k \in 1 .. Len(result) : result[k].pageNumber = pageCount
  /\ \E k \in 1 .. Len(result) : result[k].text.idx = 14

C8_OneDocumentPerSlot ==
  \A d1 \in dbDocs : \A d2 \in dbDocs : d1.slotId = d2.slotId => d1 = d2

\* two creates for one empty slot both took the create branch
C8_Witness ==
  \E r1 \in DOMAIN req : \E r2 \in DOMAIN req \ {r1} :
    /\ req[r1].kind = "create" /\ req[r2].kind = "create"
    /\ req[r1].slotId = req[r2].slotId
    /\ req[r1].foundId = NoId /\ req[r2].foundId = NoId
    /\ req[r1].pc = "done" /\ req[r1].status = 200
    /\ req[r2].pc = "done" /\ req[r2].status = 500

\* C9: every committed Extraction row names an existing Document row, and
\* after a successful DELETE no Extraction of that document remains.
C9_NoOrphanExtractions ==
  /\ \A e \in dbExts : \E d \in dbDocs : d.id = e.documentId
  /\ \A r \in DOMAIN req :
       (req[r].kind = "delete" /\ req[r].status = 200) =>
         \A e \in dbExts : e.documentId # req[r].id

\* a DELETE and a save of extractions for the same id both succeeded
C9_Witness ==
  \E r1 \in DOMAIN req : \E r2 \in DOMAIN req \ {r1} :
    /\ req[r1].kind = "delete" /\ req[r1].status = 200
    /\ req[r2].kind = "extractions" /\ req[r2].status = 200
    /\ req[r2].id = req[r1].id

EntryOf(x) == [text |-> x.text, pageNumber |-> x.pageNumber]
CountRows(exts, id, e) ==
  Cardinality({x \in exts : x.documentId = id /\ EntryOf(x) = e})
CountList(list, e) == Cardinality({k \in 1 .. Len(list) : EntryOf(list[k]) = e})
SameEntries(exts, id, list) ==
  \A e \in {EntryOf(x) : x \in exts} \cup {EntryOf(list[k]) : k \in 1 .. Len(list)} :
    CountRows(exts, id, e) = CountList(list, e)

\* C10: when a save of extractions with list L succeeds, the rows persisted
\* for the document are exactly the entries of L and the reported count is
\* the length of L.
C10_SaveReplaces ==
  [][\A r \in DOMAIN req :
       (req[r].pc = "ext_tx_commit" /\ req'[r].pc = "done" /\ req'[r].status = 200) =>
         /\ SameEntries(dbExts', req[r].id, req[r].list)
         /\ req'[r].count = Len(req[r].list)]_vars

\* C2: if generateExtractionsFromPdf throws during an upload, uploadDocument
\* still completes successfully, 3 to 7 extractions are persisted for the
\* document, and the slot holds the final document.
C2_FallbackOnExtractionFailure ==
  \A o \in DOMAIN op :
    (op[o].kind = "upload" /\ op[o].pipelineThrew /\ op[o].pc = "done") =>
      /\ op[o].outcome = "ok"
      /\ Cardinality({e \in dbExts : e.documentId = op[o].docId}) \in 3 .. 7
      /\ documents[op[o].slotId].id = op[o].docId

C19_TextAtMost153 ==
  Returned =>
    \A k \in 1 .. Len(result) : result[k].text.len <= maxLength + EllipsisLen

\* C20: the backfill adds an extraction only while the list holds fewer
\* than 3 extractions.
C20_BackfillStopsAtThree ==
  [][(fn = "pdf" /\ xpc = "backfill" /\ Len(extractions') > Len(extractions)) =>
       Len(extractions) < MinExtractions]_vars

\* C13: a create-document request that finds Document D in its slot answers
\* with D's id, leaves D in that slot, creates no second Document and leaves
\* the Documents of the other slots unchanged.
C13_UpsertInPlace ==
  [][\A r \in DOMAIN req :
       (req[r].pc = "cr_update" /\ req'[r].pc = "done") =>
         /\ req'[r].status = 200
         /\ req'[r].id = req[r].foundId
         /\ \E d \in dbDocs' : d.id = req[r].foundId /\ d.slotId = req[r].slotId
         /\ {d.id : d \in dbDocs'} = {d.id : d \in dbDocs}
         /\ Cardinality(dbDocs') = Cardinality(dbDocs)
         /\ \A d \in dbDocs : d.slotId # req[r].slotId => d \in dbDocs']_vars

C13_Witness ==
  \E r \in DOMAIN req :
    /\ req[r].kind = "create" /\ req[r].pc = "done" /\ req[r].status = 200
    /\ req[r].foundId # NoId /\ req[r].id = req[r].foundId
    /\ \E d \in dbDocs : d.id = req[r].id /\ d.slotId = req[r].slotId /\ d.uploadDate = r
    /\ \E d \in dbDocs : d.slotId # req[r].slotId

\* a body whose mimeType is not the PDF media type or whose fileSize exceeds
\* 10 MiB
ViolatesTypeOrSize(body) ==
  \/ "mimeType" \notin DOMAIN body
  \/ "fileSize" \notin DOMAIN body
  \/ body.mimeType # "application/pdf"
  \/ body.fileSize > 10 * 1024 * 1024

\* C14: every persisted Document has mimeType application/pdf and fileSize at
\* most 10 MiB; a create-document request violating either is rejected with a
\* validation error and writes no record.
C14_PdfWithinSizeLimit ==
  /\ \A d \in dbDocs : d.mimeType = "application/pdf" /\ d.fileSize <= 10 * 1024 * 1024
  /\ \A r \in DOMAIN req :
       (req[r].kind = "create" /\ ViolatesTypeOrSize(req[r].body)) =>
         /\ req[r].pc = "done" /\ req[r].status = 400 /\ req[r].cause = "validation"
         /\ \A d \in dbDocs : d.uploadDate # r

C14_Witness ==
  /\ \E d \in dbDocs : d.fileSize = 10 * 1024 * 1024 /\ d.uploadDate # 0
  /\ \E r \in DOMAIN req :
       /\ req[r].kind = "create" /\ req[r].status = 400
       /\ "name" \in DOMAIN req[r].body
       /\ req[r].body.mimeType = "application/pdf"
       /\ req[r].body.fileSize = 10 * 1024 * 1024 + 1

\* C18: when two create-document requests for one slot have both ended, neither
\* was rejected and the record of the slot carries the name, file key, size
\* and upload date of one of them, the one that wrote last.
C18_LastWriteWins ==
  \A r1, r2 \in DOMAIN req :
    (/\ r1 # r2
     /\ req[r1].kind = "create" /\ req[r2].kind = "create"
     /\ CreateBodyError(req[r1].body) = "none" /\ CreateBodyError(req[r2].body) = "none"
     /\ req[r1].slotId = req[r2].slotId
     /\ req[r1].pc = "done" /\ req[r2].pc = "done") =>
      /\ req[r1].status = 200 /\ req[r2].status = 200
      /\ \E d \in DocsBySlot(dbDocs, req[r1].slotId) :
           \E w \in DOMAIN req :
             /\ req[w].kind = "create" /\ req[w].slotId = d.slotId
             /\ d.uploadDate = w /\ d.name = req[w].name /\ d.fileKey = req[w].key
             /\ d.fileSize = req[w].body.fileSize

\* a string that ends in ".pdf", in any letter case
HasPdfExtension(v) ==
  /\ v.type = "string"
  /\ Len(v.segs) >= 2
  /\ v.segs[Len(v.segs)] \in {"pdf", "PDF"}

\* C15: the upload-url endpoint issues a URL and key only when fileName and
\* contentType are present, the file name's extension is pdf and contentType
\* is application/pdf; every other request is answered 400 VALIDATION_ERROR
\* without a URL, and the missing fields are listed in details.missingFields.
C15_UploadUrlOnlyForPdf ==
  \A r \in DOMAIN req :
    (req[r].kind = "upload_url" /\ req[r].pc = "done") =>
      LET body == req[r].body
          missing == (IF body.fileName.type = "undefined" THEN {"fileName"} ELSE {})
                       \cup (IF body.contentType.type = "undefined"
                             THEN {"contentType"} ELSE {})
          accepted == /\ missing = {}
                      /\ HasPdfExtension(body.fileName)
                      /\ body.contentType = String("application/pdf")
      IN /\ req[r].reply.url => accepted
         /\ req[r].reply.key => accepted
         /\ ~accepted =>
              /\ req[r].status = 400
              /\ req[r].reply.type = "VALIDATION_ERROR"
              /\ ~req[r].reply.url
         /\ missing # {} => missing \subseteq req[r].reply.missingFields

\* an entry with a non-empty string text and a numeric pageNumber >= 1
WellFormedEntry(e) ==
  /\ "text" \in DOMAIN e
  /\ "textType" \notin DOMAIN e
  /\ e.text.len > 0
  /\ "pageNumber" \in DOMAIN e
  /\ "pageNumberType" \notin DOMAIN e
  /\ e.pageNumber >= 1

\* a list that is missing, not an array, empty, or holds an ill-formed entry
MalformedList(body, list) ==
  \/ body # NoBody
  \/ Len(list) = 0
  \/ \E k \in 1 .. Len(list) : ~WellFormedEntry(list[k])

\* C16: a save-extractions request for an existing document with a malformed
\* list is answered 400 VALIDATION_ERROR and the persisted extractions are
\* left as they were.
C16_MalformedListRejected ==
  [][\A r \in DOMAIN req :
       (/\ req[r].pc = "ext_find" /\ req'[r].pc = "done"
        /\ DocsById(dbDocs, req[r].id) # {}
        /\ MalformedList(req[r].body, req[r].list)) =>
         /\ req'[r].status = 400
         /\ req'[r].reply.type = "VALIDATION_ERROR"
         /\ dbExts' = dbExts]_vars

\* the step at which a handler looks the document up
LookupStep(r) ==
  /\ req[r].pc \in {"get_doc", "getx_find", "dl_find", "del_find", "ext_find"}
  /\ req'[r].pc # req[r].pc

\* C17 (as stated): an operation addressed by a non-empty id that names no
\* persisted Document answers 404 NOT_FOUND with a message containing the id
\* and changes nothing in the persistent store or the byte store.
C17_NotFoundForNonEmptyId ==
  [][\A r \in DOMAIN req :
       (/\ LookupStep(r)
        /\ req[r].id # NoId
        /\ DocsById(dbDocs, req[r].id) = {}) =>
         /\ req'[r].pc = "done"
         /\ req'[r].status = 404
         /\ req'[r].reply.type = "NOT_FOUND"
         /\ req'[r].reply.id = req[r].id
         /\ <<dbDocs, dbExts, s3>>' = <<dbDocs, dbExts, s3>>]_vars

\* C17 (amended): an operation addressed by an id that is not blank (not
\* empty once white space is trimmed) and names no persisted Document
\* answers 404 NOT_FOUND with a message containing the id and changes
\* nothing; a blank id is answered 400 VALIDATION_ERROR and changes nothing.
C17_NotFoundForNonBlankId ==
  [][\A r \in DOMAIN req :
       (/\ LookupStep(r)
        /\ req[r].id # NoId
        /\ DocsById(dbDocs, req[r].id) = {}) =>
         /\ req'[r].pc = "done"
         /\ <<dbDocs, dbExts, s3>>' = <<dbDocs, dbExts, s3>>
         /\ IF req[r].id.kind = "blank"
            THEN /\ req'[r].status = 400
                 /\ req'[r].reply.type = "VALIDATION_ERROR"
            ELSE /\ req'[r].status = 404
                 /\ req'[r].reply.type = "NOT_FOUND"
                 /\ req'[r].reply.id = req[r].id]_vars

C17_Witness ==
  \E r1, r2 \in DOMAIN req :
    /\ req[r1].kind = "delete" /\ req[r1].status = 200
    /\ req[r2].kind \in {"get", "get_extractions", "download_url", "extractions", "delete"}
    /\ r1 # r2
    /\ req[r2].id = req[r1].id
    /\ req[r2].pc = "done" /\ req[r2].status = 404
    /\ req[r2].reply.id = req[r2].id

\* C12: when uploadDocument into a previously empty slot ends by throwing
\* (at the upload URL, the transfer, the record, the extractions or their
\* saving), the slot's registry entry is empty again.
C12_FailedUploadLeavesSlotEmpty ==
  [][\A o \in DOMAIN op :
       (/\ op[o].kind = "upload" /\ op[o].wasEmpty
        /\ op[o].pc # "done" /\ op'[o].pc = "done"
        /\ op'[o].outcome = "threw") =>
         documents'[op[o].slotId] = NullDoc]_vars

\* C11: round trip of the slot registry. When an upload to slot s succeeds
\* with document D, documents[s].id is D.id and the search by durable id
\* finds slot s; when a deletion of slot s succeeds, documents[s] is null;
\* and on a slot whose entry is null getExtractions returns the empty list
\* and deleteDocument returns false, neither sending a request.
C11_RegistryRoundTrip ==
  [][\A o \in DOMAIN op :
       /\ (op[o].pc = "up_save" /\ op'[o].pc = "done" /\ op'[o].outcome = "ok") =>
            /\ documents'[op[o].slotId].id = op[o].docId
            /\ SlotsHolding(documents', op[o].docId) = {op[o].slotId}
       /\ (op[o].pc = "del_wait" /\ op'[o].pc = "done" /\ op'[o].outcome = "true"
             /\ op[o].slotId \in Slots) =>
            documents'[op[o].slotId] = NullDoc
       /\ (/\ op[o].kind = "idle"
           /\ op'[o].kind \in {"delete", "extractions"}
           /\ op'[o].slotId \in Slots
           /\ documents[op'[o].slotId] = NullDoc) =>
            /\ op'[o].pc = "done"
            /\ op'[o].outcome = (IF op'[o].kind = "delete" THEN "false" ELSE "empty")
            /\ req' = req]_vars

C11_Witness ==
  \E o1, o2 \in DOMAIN op :
    /\ o1 < o2
    /\ op[o1].kind = "upload" /\ op[o1].outcome = "ok"
    /\ op[o2].kind = "delete" /\ op[o2].outcome = "true"
    /\ op[o2].slotId = op[o1].slotId
    /\ op[o2].actualId = op[o1].docId
    /\ documents[op[o1].slotId] = NullDoc

\* a page with a paragraph the scan keeps
HasImportantParagraph(page) ==
  \E k \in DOMAIN page.paras : page.paras[k].len >= MinParagraphLen /\ page.paras[k].hit

ScanEntries(exts) == {k \in DOMAIN exts : exts[k].text.src = "scan"}

C22_ResultOrderedByPage ==
  (Returned /\ result = extractions) =>
    \A i, j \in DOMAIN result : i < j => result[i].pageNumber <= result[j].pageNumber

\* C23: no reader of the registry sees a placeholder. When deleteDocument
\* or getExtractions is called with a slot id, the entry it reads is null
\* or a document whose id is a durable id, never the slot id itself.
C23_NoPlaceholderObserved ==
  [][\A o \in DOMAIN op :
       (/\ op[o].kind = "idle"
        /\ op'[o].kind \in {"delete", "extractions"}
        /\ op'[o].slotId \in Slots) =>
         \/ documents[op'[o].slotId] = NullDoc
         \/ ~IsSlotId(documents[op'[o].slotId].id)]_vars

\* the place of a step in uploadDocument
UploadRank(pc) ==
  CASE pc = "idle" -> 0
    [] pc = "up_url" -> 1
    [] pc = "up_put" -> 2
    [] pc = "up_create" -> 3
    [] pc = "up_extract" -> 4
    [] pc = "up_save" -> 5
    [] pc = "done" -> 6

\* C24: the steps of uploadDocument happen in a fixed order, each once and
\* only after the previous one succeeded: a call only moves forward, one
\* step at a time or to its end; the record is requested and created only
\* when the bytes are in the byte store; the batch is posted only for a
\* record that was created; the slot receives the durable document only
\* from a call whose batch was saved.
C24_UploadStepsInOrder ==
  [][/\ \A o \in DOMAIN op :
          (op'[o] # op[o] /\ op'[o].kind = "upload") =>
            /\ UploadRank(op'[o].pc) > UploadRank(op[o].pc)
            /\ op'[o].pc # "done" => UploadRank(op'[o].pc) = UploadRank(op[o].pc) + 1
            /\ op'[o].pc = "up_create" => op[o].key \in s3'
            /\ op'[o].pc = "up_extract" => req[o].kind = "create" /\ req[o].status = 200
            /\ op'[o].pc = "up_save" => /\ op[o].pc = "up_extract"
                                        /\ req'[o].kind = "extractions"
                                        /\ req'[o].id = op[o].docId
                                        /\ DocsById(dbDocs, op[o].docId) # {}
            /\ op'[o].outcome = "ok" => req[o].kind = "extractions" /\ req[o].status = 200
     /\ \A r \in DOMAIN req :
          (req[r].kind = "create" /\ req[r].pc # "done" /\ req'[r].pc = "done"
             /\ req'[r].status = 200) => req[r].key \in s3
     /\ \A sl \in Slots :
          (isLoaded /\ documents'[sl] # documents[sl] /\ ~IsSlotId(documents'[sl].id)) =>
            \E o \in DOMAIN op : /\ op[o].pc = "up_save" /\ op'[o].outcome = "ok"
                                  /\ op[o].slotId = sl
                                  /\ documents'[sl].id = op[o].docId]_vars

C24_Witness ==
  \E o1, o2 \in DOMAIN op :
    /\ op[o1].kind = "upload" /\ op[o1].outcome = "ok"
    /\ documents[op[o1].slotId].id = op[o1].docId
    /\ op[o2].kind = "upload" /\ op[o2].outcome = "threw" /\ op[o2].failedAt = "save"

NoUploadInFlight == \A o \in DOMAIN op : op[o].kind = "upload" => op[o].pc = "done"

\* C25: whenever no upload is in flight, every persisted Document has at
\* least one persisted Extraction.
C25_EveryDocumentHasExtractions ==
  NoUploadInFlight => \A d \in dbDocs : RowsOfDocument(dbExts, d.id) # {}

\* C26: the persisted extractions of a Document were generated from the
\* file the record points to: whenever no upload is in flight (a failed one
\* included), every extraction row of a Document was saved by the upload
\* call that stored the record's file.
C26_ExtractionsOfCurrentFile ==
  NoUploadInFlight =>
    \A d \in dbDocs : \A e \in RowsOfDocument(dbExts, d.id) : e.id.req = d.fileKey

NoRequestInFlight == \A r \in DOMAIN req : req[r].pc \in {"idle", "done"}

\* C27: after a delete attempt, whichever of its steps failed, every
\* Document row still in the persistent store has its payload in the byte
\* store.
C27_PayloadOutlivesRow ==
  NoRequestInFlight => \A d \in dbDocs : d.fileKey \in s3

\* C28: a cached download URL for slot s exists only while s holds the
\* document the URL was issued for, under every interleaving of
\* getDocumentFileUrl and deleteDocument.
C28_CachedUrlOfHeldDocument ==
  \A sl \in Slots :
    documentUrls[sl] # NoUrl =>
      documents[sl] # NullDoc /\ documents[sl].id = documentUrls[sl].id

\* C29: after an upload attempt has failed (the page count in the modal or
\* uploadDocument in the dashboard), the modal eventually is closed or no
\* longer loading, so that the user can dismiss it or upload again.
C29_ModalRecoversAfterFailure ==
  (modal.failed /\ modal.isOpen /\ modal.isLoading) ~> (~modal.isOpen \/ ~modal.isLoading)

\* C30: the page number of the preview lies in [1, numPages] of the
\* document that is loaded.
C30_PageNumberWithinDocument ==
  (preview.isOpen /\ preview.loaded) =>
    preview.pageNumber >= 1 /\ preview.pageNumber <= preview.numPages

====
